---------------------------- MODULE Spec2Model ----------------------------
(***************************************************************************)
(* Model of the content-aware incremental indexing pipeline of             *)
(* vidkosha_core (src/src/main.rs): the binary classifier, the shared      *)
(* chunking primitive, the handler registry and dispatcher, the manifest   *)
(* and the index-repo driver.                                              *)
(*                                                                         *)
(* Strings the code inspects character by character (paths, extensions,    *)
(* handler names, chunk texts) are sequences of character codes, so that   *)
(* to_ascii_lowercase, Path::extension and from_utf8_lossy are computed    *)
(* rather than assumed.  Byte buffers are sequences of 0..255.             *)
(***************************************************************************)
EXTENDS Integers, Sequences, FiniteSets, TLC

VARIABLES
    \* ---- chunk_with_overlap (one call, stepped through its loop) ----
    content,        \* the call's byte buffer (content.as_bytes())
    chunk_bytes,    \* argument
    overlap_bytes,  \* argument
    start,          \* loop variable
    chunks,         \* the Vec being filled; each element keeps its window
    cw_pc,          \* "entry" | "loop" | "body" | "done"
    \* ---- resolve_handler / should_consider_file (one call) ----
    rs_path,        \* path argument
    rs_data,        \* file bytes
    rs_cfg,         \* IngestConfig
    rs_ctx,         \* HandlerContext
    rs_pc,          \* "call" | "done"
    rs_handlers,    \* the registry build_handlers returned
    rs_handler,     \* result of resolve_handler: Option of a handler
    rs_consider,    \* result of should_consider_file
    \* ---- run_index_repo (the driver) and its environment ----
    fs,             \* the work tree: path -> [bytes, mtime]
    disk_manifest,  \* the manifest file: path -> Option of ManifestEntry
    opts,           \* IndexRepoOptions of every run, with the changed-since set
    pc,             \* "idle" | "files" | "chunks" | "label" | "write"
    run,            \* number of runs started so far
    manifest,       \* the run's in-memory manifest.files
    seen_hashes,    \* the run's dedup set
    fi,             \* position of the file loop in `files`
    prepared_chunks, \* handler.process output for the current file
    idx,            \* position of the chunk loop (0-based, as enumerate())
    chunk_ids_for_manifest,
    \* ---- what the runs did (recorded, never read by the driver) ----
    calls,          \* label and write calls issued, in order
    store,          \* records the memory store accepted, in order
    outcome,        \* of the latest run: "none" | "running" | "completed" | "aborted"
    saves,          \* save_manifest calls of the latest run
    disk_at_start,  \* the manifest file as the latest run found it
    run_fs,         \* the work tree as the latest run found it
    prev_fs,        \* the work tree as the run before the latest found it
    prev_outcome,   \* outcome of the run before the latest
    edits,          \* number of changes made to the work tree
    \* ---- DataHandler::process (one call, stepped through its loop) ----
    dh_path,        \* path argument
    dh_bytes,       \* bytes argument
    max_rows_per_chunk, \* self.max_rows_per_chunk
    dh_start,       \* loop variable `start`
    dh_prepared,    \* the Vec<PreparedChunk> being filled
    dh_pc,          \* "entry" | "loop" | "body" | "fallback" | "done"
    \* ---- one call of a function without loops of its own ----
    fn_args,        \* the arguments, as a record
    fn_ret,         \* the value returned
    fn_pc           \* "call" | "done"

chunkVars   == <<content, chunk_bytes, overlap_bytes, start, chunks, cw_pc>>
resolveVars == <<rs_path, rs_data, rs_cfg, rs_ctx, rs_pc, rs_handlers, rs_handler,
                 rs_consider>>

driverVars  == <<fs, disk_manifest, opts, pc, run, manifest, seen_hashes, fi,
                 prepared_chunks, idx, chunk_ids_for_manifest>>
historyVars == <<calls, store, outcome, saves, disk_at_start, run_fs, prev_fs,
                 prev_outcome, edits>>

dataVars    == <<dh_path, dh_bytes, max_rows_per_chunk, dh_start, dh_prepared, dh_pc>>
callVars    == <<fn_args, fn_ret, fn_pc>>

vars == <<chunkVars, resolveVars, driverVars, historyVars, dataVars, callVars>>

-----------------------------------------------------------------------------
(* Bounds of the model *)

\* longest byte buffer given to chunk_with_overlap
MaxLen == 5
\* most names in a handlers_disabled list
MaxDisabled == 1
\* runs of index-repo in one behaviour
MaxRuns == 2
\* changes made to the work tree in one behaviour
MaxEdits == 1
\* largest max_rows_per_chunk a handler override sets
MaxRows == 3
\* longest buffer given to the binary classifier
MaxBytes == 3

-----------------------------------------------------------------------------
(* Generic helpers *)

\* Option<T>: None is the empty sequence, Some(x) the one-element sequence
None == <<>>

Some(x) == <<x>>

is_some(o) == o # None

unwrap(o) == o[1]

\* Option::unwrap_or
unwrap_or(o, d) == IF o = None THEN d ELSE o[1]

Min(a, b) == IF a <= b THEN a ELSE b

Range(s) == { s[i] : i \in 1..Len(s) }

RECURSIVE SeqsUpTo(_, _)
\* all sequences over S of length at most n
SeqsUpTo(S, n) ==
    IF n = 0 THEN { <<>> }
    ELSE LET shorter == SeqsUpTo(S, n - 1)
         IN  shorter \cup { Append(s, x) : s \in { t \in shorter : Len(t) = n - 1 }, x \in S }

\* char::to_ascii_lowercase / str::to_ascii_lowercase
to_ascii_lowercase(s) ==
    [ i \in 1..Len(s) |-> IF s[i] >= 65 /\ s[i] <= 90 THEN s[i] + 32 ELSE s[i] ]

\* str::eq_ignore_ascii_case
eq_ignore_ascii_case(a, b) == to_ascii_lowercase(a) = to_ascii_lowercase(b)

\* String::from_utf8_lossy on the modelled byte alphabet: every byte below
\* 0x80 is a one-byte character; 0xFF can start no UTF-8 sequence and
\* decodes to U+FFFD.
from_utf8_lossy(bytes) ==
    [ i \in 1..Len(bytes) |-> IF bytes[i] >= 128 THEN 65533 ELSE bytes[i] ]

\* String::from_utf8(..).is_ok() on the modelled byte alphabet
is_valid_utf8(bytes) == \A i \in 1..Len(bytes) : bytes[i] < 128

\* blake3::hash(..).to_hex(): modelled as collision free, so two hashes are
\* equal exactly when the hashed contents are
blake3_hash(x) == <<"blake3", x>>

-----------------------------------------------------------------------------
(* chunk_with_overlap, main.rs 1177-1200 *)

\* let end = (start + chunk_bytes).min(bytes.len());
WindowEnd(s, cb, len) == Min(s + cb, len)

\* a mutant of WindowOverlap: the overlap is dropped
WindowOverlapNone(ob, cb, wlen) == 0

\* let overlap = overlap_bytes.min(chunk_bytes).min(end - start);
WindowOverlap(ob, cb, wlen) == Min(Min(ob, cb), wlen)

\* end.saturating_sub(overlap)
saturating_sub(a, b) == IF a >= b THEN a - b ELSE 0

\* A call that returns pushes at most one window per byte.  Once the loop
\* has pushed more windows than the buffer has bytes, some start offset has
\* repeated and the loop never leaves it; the Vec then grows without bound,
\* and the model keeps its first MaxWindows elements.
MaxWindows == Len(content) + 1

\* if chunk_bytes == 0 { return Vec::new(); }
ChunkReturnEmpty ==
    /\ cw_pc = "entry"
    /\ chunk_bytes = 0
    /\ cw_pc' = "done"
    /\ UNCHANGED <<content, chunk_bytes, overlap_bytes, start, chunks>>

ChunkEnter ==
    /\ cw_pc = "entry"
    /\ chunk_bytes # 0
    /\ cw_pc' = "loop"
    /\ UNCHANGED <<content, chunk_bytes, overlap_bytes, start, chunks>>

\* while start < bytes.len() is false: fall out of the loop
ChunkExit ==
    /\ cw_pc = "loop"
    /\ ~(start < Len(content))
    /\ cw_pc' = "done"
    /\ UNCHANGED <<content, chunk_bytes, overlap_bytes, start, chunks>>

\* while start < bytes.len() is true: enter the loop body
ChunkTest ==
    /\ cw_pc = "loop"
    /\ start < Len(content)
    /\ cw_pc' = "body"
    /\ UNCHANGED <<content, chunk_bytes, overlap_bytes, start, chunks>>

\* one iteration of the loop body
ChunkStep ==
    /\ cw_pc = "body"
    /\ LET end  == WindowEnd(start, chunk_bytes, Len(content))
           text == from_utf8_lossy(SubSeq(content, start + 1, end))
       IN  /\ chunks' = IF Len(chunks) < MaxWindows
                        THEN Append(chunks, [from |-> start, to |-> end, text |-> text])
                        ELSE chunks
           /\ IF end = Len(content)
              THEN /\ cw_pc' = "done"
                   /\ start' = start
              ELSE /\ cw_pc' = "loop"
                   /\ start' = saturating_sub(end,
                                  WindowOverlap(overlap_bytes, chunk_bytes, end - start))
    /\ UNCHANGED <<content, chunk_bytes, overlap_bytes>>

RECURSIVE ChunkLoop(_, _, _, _, _)
\* the loop of chunk_with_overlap as a function of its state; acc are the
\* texts pushed so far.  It gives up on a call that has pushed more windows
\* than the buffer has bytes, which is a call that does not return.
ChunkLoop(bytes, cb, ob, s, acc) ==
    IF ~(s < Len(bytes)) \/ Len(acc) > Len(bytes) THEN acc
    ELSE LET end  == WindowEnd(s, cb, Len(bytes))
             acc2 == Append(acc, from_utf8_lossy(SubSeq(bytes, s + 1, end)))
         IN  IF end = Len(bytes) THEN acc2
             ELSE ChunkLoop(bytes, cb, ob,
                            saturating_sub(end, WindowOverlap(ob, cb, end - s)), acc2)

\* fn chunk_with_overlap(content, chunk_bytes, overlap_bytes) -> Vec<String>
chunk_with_overlap(bytes, cb, ob) ==
    IF cb = 0 THEN <<>> ELSE ChunkLoop(bytes, cb, ob, 0, <<>>)

-----------------------------------------------------------------------------
(* Binary classifier, main.rs 1423-1445.  The f64 threshold is carried in  *)
(* hundredths (0.33 is 33), and ratio >= threshold is compared exactly as  *)
(* non_printable * 100 >= threshold * total.                               *)

\* b == b'\n' || b == b'\r' || b == b'\t' || (0x20..=0x7E).contains(&b)
is_text_byte(b) == b = 10 \/ b = 13 \/ b = 9 \/ (b >= 32 /\ b <= 126)

\* f64::clamp(0.0, 1.0), in hundredths
clamp01(t) == IF t < 0 THEN 0 ELSE IF t > 100 THEN 100 ELSE t

\* a variant of is_probably_binary_with_threshold: the ratio must exceed
\* the threshold
is_probably_binary_strict(bytes, threshold) ==
    IF 0 \in Range(bytes) THEN TRUE
    ELSE LET total         == Len(bytes)
             non_printable == Cardinality({ i \in 1..Len(bytes) : ~is_text_byte(bytes[i]) })
         IN  IF total = 0 THEN FALSE
             ELSE non_printable * 100 > clamp01(threshold) * total

is_probably_binary_with_threshold(bytes, threshold) ==
    IF 0 \in Range(bytes) THEN TRUE
    ELSE LET total         == Len(bytes)
             non_printable == Cardinality({ i \in 1..Len(bytes) : ~is_text_byte(bytes[i]) })
         IN  IF total = 0 THEN FALSE
             ELSE non_printable * 100 >= clamp01(threshold) * total

-----------------------------------------------------------------------------
(* Paths and extensions *)

RECURSIVE LastIndexOf(_, _, _)
\* the greatest i <= n with s[i] = c, or 0
LastIndexOf(s, c, n) ==
    IF n = 0 THEN 0 ELSE IF s[n] = c THEN n ELSE LastIndexOf(s, c, n - 1)

\* Path::file_name: the last component of the path ('/' is 47)
file_name(path) == SubSeq(path, LastIndexOf(path, 47, Len(path)) + 1, Len(path))

\* Path::extension: the part of the file name after its last '.', None when
\* there is no '.' or when the only '.' starts the name ('.' is 46)
extension(path) ==
    LET name == file_name(path)
        dot  == LastIndexOf(name, 46, Len(name))
    IN  IF name = <<46, 46>> \/ dot <= 1 THEN None
        ELSE Some(SubSeq(name, dot + 1, Len(name)))

\* .extension().and_then(|s| s.to_str()).map(|s| s.to_ascii_lowercase())
extension_lower(path) ==
    IF extension(path) = None THEN None
    ELSE Some(to_ascii_lowercase(unwrap(extension(path))))

E_rs == <<114, 115>>
E_ts == <<116, 115>>
E_tsx == <<116, 115, 120>>
E_js == <<106, 115>>
E_jsx == <<106, 115, 120>>
E_py == <<112, 121>>
E_md == <<109, 100>>
E_markdown == <<109, 97, 114, 107, 100, 111, 119, 110>>
E_csv == <<99, 115, 118>>
E_json == <<106, 115, 111, 110>>
E_jsonl == <<106, 115, 111, 110, 108>>
E_txt == <<116, 120, 116>>

\* fn language_from_extension(path) -> Option<CodeLanguage>
language_from_extension(path) ==
    LET ext == extension_lower(path)
    IN  IF ext = Some(E_rs) THEN Some("Rust")
        ELSE IF ext = Some(E_ts) THEN Some("TypeScript")
        ELSE IF ext = Some(E_tsx) THEN Some("Tsx")
        ELSE IF ext = Some(E_js) \/ ext = Some(E_jsx) THEN Some("JavaScript")
        ELSE IF ext = Some(E_py) THEN Some("Python")
        ELSE None

-----------------------------------------------------------------------------
(* Handlers: name and supports.  A handler is a record                     *)
(* [kind, chunk_bytes, overlap_bytes, heading_depth, max_rows_per_chunk];  *)
(* a field its struct does not have is 0.                                  *)

S_code == <<99, 111, 100, 101>>
S_markdown == <<109, 97, 114, 107, 100, 111, 119, 110>>
S_data == <<100, 97, 116, 97>>
S_text == <<116, 101, 120, 116>>
S_binary == <<98, 105, 110, 97, 114, 121>>

\* IngestHandler::name
HandlerName(h) ==
    CASE h.kind = "code"     -> S_code
      [] h.kind = "markdown" -> S_markdown
      [] h.kind = "data"     -> S_data
      [] h.kind = "text"     -> S_text
      [] h.kind = "binary"   -> S_binary

\* the gate every text handler's supports opens with:
\* !ctx.allow_binary && is_probably_binary_with_threshold(bytes, ctx.binary_threshold)
BinaryGate(bytes, ctx) ==
    ~ctx.allow_binary /\ is_probably_binary_with_threshold(bytes, ctx.binary_threshold)

\* CodeHandler::supports
CodeSupports(path, bytes, ctx) ==
    IF BinaryGate(bytes, ctx) THEN FALSE
    ELSE IF language_from_extension(path) = None THEN FALSE
    ELSE is_valid_utf8(bytes)

\* MarkdownHandler::supports (the extension is matched as spelled)
MarkdownSupports(path, bytes, ctx) ==
    IF BinaryGate(bytes, ctx) THEN FALSE
    ELSE extension(path) \in {Some(E_md), Some(E_markdown)} /\ is_valid_utf8(bytes)

\* DataHandler::supports (the extension is matched as spelled)
DataSupports(path, bytes, ctx) ==
    IF BinaryGate(bytes, ctx) THEN FALSE
    ELSE extension(path) \in {Some(E_csv), Some(E_json), Some(E_jsonl)} /\ is_valid_utf8(bytes)

\* PlainTextHandler::supports
PlainTextSupports(path, bytes, ctx) ==
    IF BinaryGate(bytes, ctx) THEN FALSE
    ELSE IF ~is_valid_utf8(bytes) THEN FALSE
    ELSE IF extension(path) # None
         THEN LET ext_l == to_ascii_lowercase(unwrap(extension(path)))
              IN  ext_l # E_md /\ ext_l # E_markdown /\ ext_l # E_csv /\ ext_l # E_jsonl
         ELSE TRUE

\* BinaryHandler::supports
BinarySupports(path, bytes, ctx) ==
    is_probably_binary_with_threshold(bytes, ctx.binary_threshold)

\* dyn IngestHandler::supports
Supports(h, path, bytes, ctx) ==
    CASE h.kind = "code"     -> CodeSupports(path, bytes, ctx)
      [] h.kind = "markdown" -> MarkdownSupports(path, bytes, ctx)
      [] h.kind = "data"     -> DataSupports(path, bytes, ctx)
      [] h.kind = "text"     -> PlainTextSupports(path, bytes, ctx)
      [] h.kind = "binary"   -> BinarySupports(path, bytes, ctx)

-----------------------------------------------------------------------------
(* Policy: IngestConfig (main.rs 771-781) is a record of Options;          *)
(* HandlerContext (main.rs 806-809) is [allow_binary, binary_threshold].   *)

\* a variant of handler_enabled: the names are compared as written
handler_enabled_exact(name, cfg) ==
    IF cfg.handlers_disabled # None
    THEN name \notin unwrap(cfg.handlers_disabled)
    ELSE TRUE

\* fn handler_enabled(name, cfg) -> bool
handler_enabled(name, cfg) ==
    IF cfg.handlers_disabled # None
    THEN ~(\E n \in unwrap(cfg.handlers_disabled) : eq_ignore_ascii_case(n, name))
    ELSE TRUE

\* fn handler_options_for(name, cfg, default_chunk_bytes, default_overlap) -> HandlerConfig
handler_options_for(name, cfg, default_chunk_bytes, default_overlap) ==
    LET base == [ chunk_bytes        |-> Some(default_chunk_bytes),
                  overlap_bytes      |-> Some(default_overlap),
                  max_file_bytes     |-> cfg.max_file_bytes,
                  heading_depth      |-> None,
                  max_rows_per_chunk |-> None ]
    IN  IF cfg.handler_overrides # None /\ name \in DOMAIN unwrap(cfg.handler_overrides)
        THEN LET o == unwrap(cfg.handler_overrides)[name]
             IN  [ chunk_bytes        |-> IF o.chunk_bytes # None
                                          THEN o.chunk_bytes ELSE base.chunk_bytes,
                   overlap_bytes      |-> IF o.overlap_bytes # None
                                          THEN o.overlap_bytes ELSE base.overlap_bytes,
                   max_file_bytes     |-> IF o.max_file_bytes # None
                                          THEN o.max_file_bytes ELSE base.max_file_bytes,
                   heading_depth      |-> IF o.heading_depth # None
                                          THEN o.heading_depth ELSE base.heading_depth,
                   max_rows_per_chunk |-> IF o.max_rows_per_chunk # None
                                          THEN o.max_rows_per_chunk
                                          ELSE base.max_rows_per_chunk ]
        ELSE base

\* heading_depth: opts.heading_depth.unwrap_or(6)
DefaultHeadingDepth == 6
\* max_rows_per_chunk: opts.max_rows_per_chunk.unwrap_or(200)
DefaultMaxRows == 200

\* the handler build_handlers constructs for `kind` (one of its if-blocks)
MakeHandler(kind, name, cfg, dcb, dov) ==
    LET hopts == handler_options_for(name, cfg, dcb, dov)
    IN  [ kind               |-> kind,
          chunk_bytes        |-> IF kind = "binary" THEN 0
                                 ELSE unwrap_or(hopts.chunk_bytes, dcb),
          overlap_bytes      |-> IF kind = "binary" THEN 0
                                 ELSE unwrap_or(hopts.overlap_bytes, dov),
          heading_depth      |-> IF kind = "markdown"
                                 THEN unwrap_or(hopts.heading_depth, DefaultHeadingDepth)
                                 ELSE 0,
          max_rows_per_chunk |-> IF kind = "data"
                                 THEN unwrap_or(hopts.max_rows_per_chunk, DefaultMaxRows)
                                 ELSE 0 ]

\* a mutant of RegistryOrder: the plain-text handler is pushed before the
\* specialised text handlers
RegistryOrderTextFirst == <<"text", "code", "markdown", "data", "binary">>

\* the order in which build_handlers pushes the handlers
RegistryOrder == <<"code", "markdown", "data", "text", "binary">>

\* a mutant of BinaryRegistered: the Binary handler is always registered
BinaryRegisteredAlways(cfg, ctx) == handler_enabled(S_binary, cfg)

\* if ctx.allow_binary && handler_enabled("binary", ingest_config)
BinaryRegistered(cfg, ctx) == ctx.allow_binary /\ handler_enabled(S_binary, cfg)

RECURSIVE PushHandlers(_, _, _, _, _)
PushHandlers(i, cfg, dcb, dov, ctx) ==
    IF i > Len(RegistryOrder) THEN <<>>
    ELSE LET kind == RegistryOrder[i]
             name == HandlerName([kind |-> kind])
             on   == IF kind = "binary" THEN BinaryRegistered(cfg, ctx)
                     ELSE handler_enabled(name, cfg)
             rest == PushHandlers(i + 1, cfg, dcb, dov, ctx)
         IN  IF on THEN <<MakeHandler(kind, name, cfg, dcb, dov)>> \o rest ELSE rest

\* fn build_handlers(ingest_config, default_chunk_bytes, default_overlap, ctx)
build_handlers(cfg, dcb, dov, ctx) == PushHandlers(1, cfg, dcb, dov, ctx)

RECURSIVE FirstSupporting(_, _, _, _, _)
\* for handler in handlers { if handler.supports(..) { return Some(handler) } } None
FirstSupporting(handlers, i, path, data, ctx) ==
    IF i > Len(handlers) THEN None
    ELSE IF Supports(handlers[i], path, data, ctx) THEN Some(handlers[i])
    ELSE FirstSupporting(handlers, i + 1, path, data, ctx)

RECURSIVE FindByName(_, _, _)
\* handlers.iter().find(|h| h.name().eq_ignore_ascii_case(target))
FindByName(handlers, i, target) ==
    IF i > Len(handlers) THEN None
    ELSE IF eq_ignore_ascii_case(HandlerName(handlers[i]), target) THEN Some(handlers[i])
    ELSE FindByName(handlers, i + 1, target)

\* a variant of ForcedHandler: the force_handlers mapping is not consulted
ForcedHandlerIgnored(handlers, cfg, path, data, ctx) == None

\* the force_handlers branch of resolve_handler: the forced handler when the
\* mapping names a registered handler that supports the file, else None
ForcedHandler(handlers, cfg, path, data, ctx) ==
    LET ext == extension_lower(path)
    IN  IF cfg.force_handlers # None /\ ext # None
           /\ unwrap(ext) \in DOMAIN unwrap(cfg.force_handlers)
        THEN LET target == unwrap(cfg.force_handlers)[unwrap(ext)]
                 found  == FindByName(handlers, 1, target)
             IN  IF found # None /\ Supports(unwrap(found), path, data, ctx)
                 THEN found ELSE None
        ELSE None

\* fn resolve_handler(handlers, cfg, path, data, ctx) -> Option<&dyn IngestHandler>
resolve_handler(handlers, cfg, path, data, ctx) ==
    LET forced == ForcedHandler(handlers, cfg, path, data, ctx)
    IN  IF forced # None THEN forced
        ELSE FirstSupporting(handlers, 1, path, data, ctx)

\* a variant of should_skip_extension: the allow list is consulted first
should_skip_extension_allow_first(path, cfg) ==
    LET ext == extension_lower(path)
    IN  IF cfg.allow_extensions # None
        THEN ~(ext # None /\ unwrap(ext) \in unwrap(cfg.allow_extensions))
        ELSE IF cfg.deny_extensions # None /\ ext # None
                /\ unwrap(ext) \in unwrap(cfg.deny_extensions)
             THEN TRUE
             ELSE FALSE

\* fn should_skip_extension(path, cfg) -> bool
should_skip_extension(path, cfg) ==
    LET ext == extension_lower(path)
    IN  IF cfg.deny_extensions # None /\ ext # None
           /\ unwrap(ext) \in unwrap(cfg.deny_extensions)
        THEN TRUE
        ELSE IF cfg.allow_extensions # None
             THEN ~(ext # None /\ unwrap(ext) \in unwrap(cfg.allow_extensions))
             ELSE FALSE

\* fn should_consider_file(path, meta, data, ingest_config, max_file_bytes_flag,
\*                         changed_only, handler_ctx) -> bool
\* meta is [is_file, len]; changed_only is an Option of a set of paths
should_consider_file(path, meta, data, cfg, max_file_bytes_flag, changed_only, ctx) ==
    IF changed_only # None /\ path \notin unwrap(changed_only) THEN FALSE
    ELSE IF ~meta.is_file THEN FALSE
    ELSE IF meta.len = 0 THEN FALSE
    ELSE IF meta.len > unwrap_or(cfg.max_file_bytes, max_file_bytes_flag) THEN FALSE
    ELSE IF should_skip_extension(path, cfg) THEN FALSE
    ELSE IF data = <<>> THEN FALSE
    ELSE IF ~ctx.allow_binary
            /\ is_probably_binary_with_threshold(data, ctx.binary_threshold) THEN FALSE
    ELSE TRUE

-----------------------------------------------------------------------------
(* Specification SpecChunk: one call of chunk_with_overlap on every buffer  *)
(* of at most MaxLen bytes, with every chunk_bytes and overlap_bytes up to  *)
(* MaxLen + 1.                                                              *)

\* 'a' and 0xFF (which from_utf8_lossy replaces)
ChunkAlphabet == {97, 255}

ChunkIdle ==
    /\ content = <<>>
    /\ chunk_bytes = 0
    /\ overlap_bytes = 0
    /\ start = 0
    /\ chunks = <<>>
    /\ cw_pc = "idle"

ResolveIdle ==
    /\ rs_path = <<>>
    /\ rs_data = <<>>
    /\ rs_cfg = None
    /\ rs_ctx = None
    /\ rs_pc = "idle"
    /\ rs_handlers = <<>>
    /\ rs_handler = None
    /\ rs_consider = FALSE

DriverIdle ==
    /\ fs = <<>>
    /\ disk_manifest = <<>>
    /\ opts = None
    /\ pc = "off"
    /\ run = 0
    /\ manifest = <<>>
    /\ seen_hashes = {}
    /\ fi = 0
    /\ prepared_chunks = <<>>
    /\ idx = 0
    /\ chunk_ids_for_manifest = <<>>
    /\ calls = <<>>
    /\ store = <<>>
    /\ outcome = "none"
    /\ saves = 0
    /\ disk_at_start = <<>>
    /\ run_fs = <<>>
    /\ prev_fs = <<>>
    /\ prev_outcome = "none"
    /\ edits = 0

DataIdle ==
    /\ dh_path = <<>>
    /\ dh_bytes = <<>>
    /\ max_rows_per_chunk = 0
    /\ dh_start = 0
    /\ dh_prepared = <<>>
    /\ dh_pc = "idle"

CallIdle ==
    /\ fn_args = None
    /\ fn_ret = None
    /\ fn_pc = "idle"

InitChunk ==
    /\ content \in SeqsUpTo(ChunkAlphabet, MaxLen)
    /\ chunk_bytes \in 0..(MaxLen + 1)
    /\ overlap_bytes \in 0..(MaxLen + 1)
    /\ start = 0
    /\ chunks = <<>>
    /\ cw_pc = "entry"
    /\ ResolveIdle
    /\ DriverIdle
    /\ DataIdle
    /\ CallIdle

NextChunk ==
    \/ ChunkReturnEmpty /\ UNCHANGED <<resolveVars, driverVars, historyVars, dataVars, callVars>>
    \/ ChunkEnter /\ UNCHANGED <<resolveVars, driverVars, historyVars, dataVars, callVars>>
    \/ ChunkExit /\ UNCHANGED <<resolveVars, driverVars, historyVars, dataVars, callVars>>
    \/ ChunkTest /\ UNCHANGED <<resolveVars, driverVars, historyVars, dataVars, callVars>>
    \/ ChunkStep /\ UNCHANGED <<resolveVars, driverVars, historyVars, dataVars, callVars>>

SpecChunk == InitChunk /\ [][NextChunk]_vars

\* The call keeps taking its next step while it has one: the function is
\* ordinary sequential code that nothing suspends.
SpecChunkFair ==
    /\ InitChunk
    /\ [][NextChunk]_vars
    /\ WF_vars(NextChunk)

-----------------------------------------------------------------------------
(* Specification SpecResolve: one file put through build_handlers,          *)
(* resolve_handler and should_consider_file under every modelled policy.    *)

P_main_rs == <<109, 97, 105, 110, 46, 114, 115>>
P_readme_md == <<114, 101, 97, 100, 109, 101, 46, 109, 100>>
P_data_csv == <<100, 97, 116, 97, 46, 99, 115, 118>>
P_notes_txt == <<110, 111, 116, 101, 115, 46, 116, 120, 116>>
P_blob_json == <<98, 108, 111, 98, 46, 106, 115, 111, 110>>
P_doc_MD == <<100, 111, 99, 46, 77, 68>>
P_img == <<105, 109, 103>>
P_dot_md == <<46, 109, 100>>

\* main.rs, readme.md, data.csv, notes.txt, blob.json, doc.MD, img, .md
ResolvePaths ==
    { P_main_rs, P_readme_md, P_data_csv, P_notes_txt, P_blob_json, P_doc_MD, P_img,
      P_dot_md }

\* file contents over NUL, the control byte 1, 'a' and 255 (not UTF-8):
\* empty, text, binary by a NUL, binary only by the ratio of non-printable
\* bytes (1/2, 1/3 and 1/4 of them), not UTF-8
DataSamples ==
    { <<>>, <<97>>, <<97, 97>>,
      <<0>>, <<97, 0>>,
      <<1>>, <<1, 1>>, <<97, 1>>, <<97, 97, 1>>, <<97, 97, 97, 1>>,
      <<255>>, <<97, 255>> }

\* "Text": a handler name spelled with another case
S_Text == <<84, 101, 120, 116>>

HandlerNames == {S_code, S_markdown, S_data, S_text, S_binary}

\* binary_threshold values, in hundredths
Thresholds == {33, 100}

\* the CLI defaults of index-repo
DefaultChunkBytes == 1200
DefaultOverlapBytes == 200
DefaultMaxFileBytes == 200000

ConfigWith(disabled, force) ==
    [ allow_extensions  |-> None,
      deny_extensions   |-> None,
      max_file_bytes    |-> None,
      manifest_path     |-> None,
      binary_threshold  |-> None,
      allow_binary      |-> None,
      handlers_disabled |-> disabled,
      handler_overrides |-> None,
      force_handlers    |-> force ]

DisabledChoices ==
    {None} \cup { Some(S) : S \in { D \in SUBSET (HandlerNames \cup {S_Text}) :
                                     Cardinality(D) <= MaxDisabled } }

\* no mapping, or one extension mapped to one handler name
ForceChoices ==
    {None} \cup { Some([ e \in {ext} |-> target ]) :
                    ext \in {E_rs, E_json, E_md, E_txt},
                    target \in HandlerNames \cup {S_Text} }

InitResolve ==
    /\ rs_path \in ResolvePaths
    /\ rs_data \in DataSamples
    /\ rs_cfg \in { ConfigWith(d, f) : d \in DisabledChoices, f \in ForceChoices }
    /\ rs_ctx \in [ allow_binary : BOOLEAN, binary_threshold : Thresholds ]
    /\ rs_pc = "call"
    /\ rs_handlers = <<>>
    /\ rs_handler = None
    /\ rs_consider = FALSE
    /\ ChunkIdle
    /\ DriverIdle
    /\ DataIdle
    /\ CallIdle

\* the driver's calls for one file: build_handlers (979), should_consider_file
\* (1024) and resolve_handler (1043)
ResolveCall ==
    /\ rs_pc = "call"
    /\ LET handlers == build_handlers(rs_cfg, DefaultChunkBytes, DefaultOverlapBytes, rs_ctx)
       IN  /\ rs_handlers' = handlers
           /\ rs_handler' = resolve_handler(handlers, rs_cfg, rs_path, rs_data, rs_ctx)
    /\ rs_consider' = should_consider_file(rs_path,
                          [is_file |-> TRUE, len |-> Len(rs_data)], rs_data, rs_cfg,
                          DefaultMaxFileBytes, None, rs_ctx)
    /\ rs_pc' = "done"
    /\ UNCHANGED <<rs_path, rs_data, rs_cfg, rs_ctx>>

NextResolve ==
    ResolveCall /\ UNCHANGED <<chunkVars, driverVars, historyVars, dataVars, callVars>>

SpecResolve == InitResolve /\ [][NextResolve]_vars

-----------------------------------------------------------------------------
(* Handlers: process.  A PreparedChunk is [text, chunk_index,               *)
(* chunk_id_hint, ingest_mode]; of the metadata map only ingest_mode is     *)
(* kept, and the keys a claim is about (row_range, data_format,            *)
(* markdown_heading, the symbol and its part numbers).  The files of the    *)
(* driver specification resolve to the PlainText handler, to the Binary     *)
(* handler or to none.                                                      *)

\* PlainTextHandler::process.  supports has accepted the bytes as UTF-8, so
\* content.as_bytes() are the file's bytes.
PlainTextProcess(h, path, bytes) ==
    LET texts == chunk_with_overlap(bytes, h.chunk_bytes, h.overlap_bytes)
    IN  [ i \in 1..Len(texts) |->
            [ text          |-> texts[i],
              chunk_index   |-> i - 1,
              chunk_id_hint |-> None,
              ingest_mode   |-> "text" ] ]

\* "<binary file: "
BinaryPrefix == <<60, 98, 105, 110, 97, 114, 121, 32, 102, 105, 108, 101, 58, 32>>

\* BinaryHandler::process: one placeholder, format!("<binary file: {}>", path)
BinaryProcess(h, path, bytes) ==
    << [ text          |-> BinaryPrefix \o path \o <<62>>,
         chunk_index   |-> 0,
         chunk_id_hint |-> None,
         ingest_mode   |-> "binary" ] >>

\* str::lines on the modelled alphabet (no carriage returns): the pieces
\* between line feeds, without a final empty piece
lines(s) ==
    LET RECURSIVE from(_, _)
        from(i, cur) ==
            IF i > Len(s) THEN (IF cur = <<>> THEN <<>> ELSE <<cur>>)
            ELSE IF s[i] = 10 THEN <<cur>> \o from(i + 1, <<>>)
            ELSE from(i + 1, Append(cur, s[i]))
    IN  from(1, <<>>)

RECURSIVE join(_)
\* slice.join("\n")
join(ls) ==
    IF ls = <<>> THEN <<>>
    ELSE IF Len(ls) = 1 THEN ls[1]
    ELSE ls[1] \o <<10>> \o join(Tail(ls))

\* DataHandler::process: data_format
data_format(path) ==
    LET ext == to_ascii_lowercase(unwrap_or(extension(path), <<>>))
    IN  IF ext = E_csv THEN "csv" ELSE IF ext = E_jsonl THEN "jsonl" ELSE "json"

\* a variant of DataWindow whose window always has one row more than asked
DataWindowOneMore(lns, s, k, path, len) ==
    LET end == Min(s + k + 1, Len(lns))
    IN  [ text          |-> join(SubSeq(lns, s + 1, end)),
          chunk_index   |-> len,
          chunk_id_hint |-> None,
          ingest_mode   |-> "data",
          data_format   |-> data_format(path),
          row_range     |-> Some(<<s, end>>) ]

\* DataHandler::process: the chunk one iteration pushes; s is `start`, k is
\* self.max_rows_per_chunk, len is prepared.len()
DataWindow(lns, s, k, path, len) ==
    LET end == Min(s + k, Len(lns))
    IN  [ text          |-> join(SubSeq(lns, s + 1, end)),
          chunk_index   |-> len,
          chunk_id_hint |-> None,
          ingest_mode   |-> "data",
          data_format   |-> data_format(path),
          row_range     |-> Some(<<s, end>>) ]

\* DataHandler::process: if prepared.is_empty(), one chunk with the whole
\* content (here `whole`) and no row_range
DataFallback(prepared, whole) ==
    IF prepared = <<>>
    THEN << [ text          |-> whole,
              chunk_index   |-> 0,
              chunk_id_hint |-> None,
              ingest_mode   |-> "data" ] >>
    ELSE prepared

\* let lines: Vec<&str> = content.lines().collect();
DhLines == lines(from_utf8_lossy(dh_bytes))

\* let content, ext, data_format, lines, prepared, start, total
DataEnter ==
    /\ dh_pc = "entry"
    /\ dh_pc' = "loop"
    /\ dh_start' = 0
    /\ dh_prepared' = <<>>
    /\ UNCHANGED <<dh_path, dh_bytes, max_rows_per_chunk>>

\* while start < total is true
DataTest ==
    /\ dh_pc = "loop"
    /\ dh_start < Len(DhLines)
    /\ dh_pc' = "body"
    /\ UNCHANGED <<dh_path, dh_bytes, max_rows_per_chunk, dh_start, dh_prepared>>

\* one iteration of the loop body.  A call that returns pushes at most one
\* chunk per line; of a Vec that grows beyond that (the loop is then stuck at
\* one start) the model keeps the first elements.
DataStep ==
    /\ dh_pc = "body"
    /\ LET w == DataWindow(DhLines, dh_start, max_rows_per_chunk, dh_path,
                           Len(dh_prepared))
       IN  /\ dh_prepared' = IF Len(dh_prepared) <= Len(DhLines)
                             THEN Append(dh_prepared, w) ELSE dh_prepared
           /\ dh_start' = unwrap(w.row_range)[2]
    /\ dh_pc' = "loop"
    /\ UNCHANGED <<dh_path, dh_bytes, max_rows_per_chunk>>

\* while start < total is false: the fallback, and Ok(prepared)
DataReturn ==
    /\ dh_pc = "loop"
    /\ ~(dh_start < Len(DhLines))
    /\ dh_prepared' = DataFallback(dh_prepared, from_utf8_lossy(dh_bytes))
    /\ dh_pc' = "done"
    /\ UNCHANGED <<dh_path, dh_bytes, max_rows_per_chunk, dh_start>>

\* DataHandler::process as a function of its arguments.  The loop is followed
\* while it can still return: it gives up once it has pushed more chunks than
\* there are lines.
DataProcess(h, path, bytes) ==
    LET lns == lines(from_utf8_lossy(bytes))
        RECURSIVE loop(_, _)
        loop(s, acc) ==
            IF ~(s < Len(lns)) \/ Len(acc) > Len(lns) THEN acc
            ELSE LET w == DataWindow(lns, s, h.max_rows_per_chunk, path, Len(acc))
                 IN  loop(unwrap(w.row_range)[2], Append(acc, w))
    IN  DataFallback(loop(0, <<>>), from_utf8_lossy(bytes))

\* The text state of MarkdownHandler::process after the lines lns: the
\* sections pushed so far, current_heading and current_body.  Whitespace of
\* the modelled alphabet is the space; '#' is 35.
MarkdownScan(lns, heading_depth) ==
    LET RECURSIVE skip(_, _)
        \* s without its leading characters c
        skip(s, c) == IF s # <<>> /\ s[1] = c THEN skip(Tail(s), c) ELSE s
        RECURSIVE chop(_)
        \* s without its trailing spaces
        chop(s) == IF s # <<>> /\ s[Len(s)] = 32 THEN chop(SubSeq(s, 1, Len(s) - 1)) ELSE s
        RECURSIVE scan(_)
        scan(n) ==
            IF n = 0
            THEN [ sections |-> <<>>, current_heading |-> <<>>, current_body |-> <<>> ]
            ELSE LET st      == scan(n - 1)
                     line    == lns[n]
                     trimmed == skip(line, 32)
                     hash    == trimmed # <<>> /\ trimmed[1] = 35
                     closes  == hash /\ st.current_body # <<>>
                     depth   == Len(trimmed) - Len(skip(trimmed, 35))
                 IN  [ sections        |-> IF closes
                                           THEN Append(st.sections,
                                                       [ heading |-> st.current_heading,
                                                         body    |-> st.current_body ])
                                           ELSE st.sections,
                       current_heading |-> IF hash /\ depth <= heading_depth
                                           THEN chop(skip(skip(trimmed, 35), 32))
                                           ELSE st.current_heading,
                       current_body    |-> (IF closes THEN <<>> ELSE st.current_body)
                                              \o line \o <<10>> ]
    IN  scan(Len(lns))

\* MarkdownHandler::process: the sections, the last one pushed after the loop
MarkdownSections(text, heading_depth) ==
    LET st == MarkdownScan(lines(text), heading_depth)
    IN  IF st.current_body # <<>>
        THEN Append(st.sections, [ heading |-> st.current_heading,
                                   body    |-> st.current_body ])
        ELSE st.sections

\* a variant of MarkdownChunk that attaches no heading
MarkdownChunkNoHeading(text, index, heading) ==
    [ text |-> text, chunk_index |-> index, chunk_id_hint |-> None, ingest_mode |-> "text" ]

\* MarkdownHandler::process: the PreparedChunk of one window of a section;
\* markdown_heading is inserted only if the heading is not empty
MarkdownChunk(text, index, heading) ==
    LET base == [ text          |-> text,
                  chunk_index   |-> index,
                  chunk_id_hint |-> None,
                  ingest_mode   |-> "text" ]
    IN  IF heading # <<>>
        THEN base @@ [ k \in {"markdown_heading"} |-> heading ]
        ELSE base

\* MarkdownHandler::process: chunk_index is global_idx + idx
MarkdownProcess(h, path, bytes) ==
    LET sections == MarkdownSections(from_utf8_lossy(bytes), h.heading_depth)
        RECURSIVE emit(_)
        emit(g) ==
            IF g > Len(sections) THEN <<>>
            ELSE LET texts == chunk_with_overlap(sections[g].body, h.chunk_bytes,
                                                 h.overlap_bytes)
                 IN  [ i \in 1..Len(texts) |->
                         MarkdownChunk(texts[i], (g - 1) + (i - 1), sections[g].heading) ]
                     \o emit(g + 1)
    IN  emit(1)

\* a variant of SymbolParts that numbers the parts from 1
SymbolPartsFromOne(sym, parts) ==
    [ i \in 1..Len(parts) |->
        [ text |-> parts[i], symbol |-> sym, part_index |-> i, part_count |-> Len(parts) ] ]

\* chunk_code_symbols: the SymbolChunks of a symbol split into parts
SymbolParts(sym, parts) ==
    [ i \in 1..Len(parts) |->
        [ text |-> parts[i], symbol |-> sym, part_index |-> i - 1,
          part_count |-> Len(parts) ] ]

\* chunk_code_symbols, given what extract_symbols (the tree-sitter parse)
\* returned: symbols are [name, start_byte, end_byte], sorted by start_byte.
\* Whitespace of the modelled alphabet is the space and the line feed.
chunk_code_symbols(text, cb, ob, symbols) ==
    LET RECURSIVE each(_)
        each(n) ==
            IF n > Len(symbols) THEN <<>>
            ELSE LET sym  == symbols[n]
                     body == SubSeq(text, sym.start_byte + 1, sym.end_byte)
                 IN  (IF sym.end_byte > Len(text) \/ sym.start_byte >= sym.end_byte
                      THEN <<>>
                      ELSE IF \A i \in 1..Len(body) : body[i] \in {32, 10}
                      THEN <<>>
                      ELSE IF cb > 0 /\ Len(body) > cb
                      THEN SymbolParts(sym, chunk_with_overlap(body, cb, ob))
                      ELSE << [ text |-> body, symbol |-> sym, part_index |-> 0,
                                part_count |-> 1 ] >>)
                     \o each(n + 1)
    IN  each(1)

\* CodeHandler::process, given what extract_symbols returned.  The id hint
\* format!("{}#sym-{}-{}-p{}of{}", ..) is kept as the tuple of its fields;
\* the symbol names of the model are alphanumeric, which sanitize_symbol_name
\* leaves as they are.
CodeProcess(h, path, bytes, symbols) ==
    LET text == from_utf8_lossy(bytes)
        scs  == chunk_code_symbols(text, h.chunk_bytes, h.overlap_bytes, symbols)
        fall == chunk_with_overlap(text, h.chunk_bytes, h.overlap_bytes)
    IN  IF language_from_extension(path) = None THEN <<>>
        ELSE IF scs # <<>>
        THEN [ i \in 1..Len(scs) |->
                 [ text          |-> scs[i].text,
                   chunk_index   |-> i - 1,
                   chunk_id_hint |-> Some(<<path, scs[i].symbol.name,
                                           scs[i].symbol.start_byte,
                                           scs[i].part_index, scs[i].part_count>>),
                   ingest_mode   |-> "code",
                   symbol        |-> scs[i].symbol,
                   part_index    |-> scs[i].part_index,
                   part_count    |-> scs[i].part_count ] ]
        ELSE [ i \in 1..Len(fall) |->
                 [ text          |-> fall[i],
                   chunk_index   |-> i - 1,
                   chunk_id_hint |-> None,
                   ingest_mode   |-> "code" ] ]

\* dyn IngestHandler::process.  The Code handler, whose output depends on
\* the parse, is CodeProcess.
Process(h, path, bytes) ==
    CASE h.kind = "text"     -> PlainTextProcess(h, path, bytes)
      [] h.kind = "binary"   -> BinaryProcess(h, path, bytes)
      [] h.kind = "markdown" -> MarkdownProcess(h, path, bytes)
      [] h.kind = "data"     -> DataProcess(h, path, bytes)

-----------------------------------------------------------------------------
(* Specification SpecData: one call of DataHandler::process, on every file   *)
(* of at most MaxLen bytes of 'a' and line feeds that the handler supports,  *)
(* the handler built by build_handlers from a policy that leaves             *)
(* max_rows_per_chunk alone or overrides it with 0..MaxRows.                 *)

P_rows_jsonl == <<114, 111, 119, 115, 46, 106, 115, 111, 110, 108>>

\* a policy whose handler_overrides entry for "data" sets max_rows_per_chunk
DataPolicy(rows) ==
    [ ConfigWith(None, None) EXCEPT
        !.handler_overrides =
            Some([ n \in {S_data} |->
                     [ chunk_bytes        |-> None,
                       overlap_bytes      |-> None,
                       max_file_bytes     |-> None,
                       heading_depth      |-> None,
                       max_rows_per_chunk |-> rows ] ]) ]

InitData ==
    /\ dh_path \in {P_data_csv, P_blob_json, P_rows_jsonl}
    /\ dh_bytes \in SeqsUpTo({97, 10}, MaxLen)
    /\ DataSupports(dh_path, dh_bytes, [allow_binary |-> FALSE, binary_threshold |-> 33])
    /\ \E rows \in {None} \cup { Some(k) : k \in 0..MaxRows } :
          max_rows_per_chunk =
              MakeHandler("data", S_data, DataPolicy(rows),
                          DefaultChunkBytes, DefaultOverlapBytes).max_rows_per_chunk
    /\ dh_start = 0
    /\ dh_prepared = <<>>
    /\ dh_pc = "entry"
    /\ ChunkIdle
    /\ ResolveIdle
    /\ DriverIdle
    /\ CallIdle

NextData ==
    \/ DataEnter /\ UNCHANGED <<chunkVars, resolveVars, driverVars, historyVars, callVars>>
    \/ DataTest /\ UNCHANGED <<chunkVars, resolveVars, driverVars, historyVars, callVars>>
    \/ DataStep /\ UNCHANGED <<chunkVars, resolveVars, driverVars, historyVars, callVars>>
    \/ DataReturn /\ UNCHANGED <<chunkVars, resolveVars, driverVars, historyVars, callVars>>

SpecData == InitData /\ [][NextData]_vars

\* The call keeps taking its next step while it has one.
SpecDataFair ==
    /\ InitData
    /\ [][NextData]_vars
    /\ WF_vars(NextData)

-----------------------------------------------------------------------------
(* Manifest, main.rs 2175-2201 *)

\* a mutant of is_unchanged_in_manifest: no file is ever taken as unchanged
is_unchanged_never(path, mf, file_hash, mtime) == FALSE

\* a variant of is_unchanged_in_manifest: the mtime alone decides
is_unchanged_by_mtime(path, mf, file_hash, mtime) ==
    IF path \in DOMAIN mf /\ mf[path] # None
    THEN unwrap(mf[path]).mtime = mtime
    ELSE FALSE

\* fn is_unchanged_in_manifest(path, manifest, file_hash, mtime) -> bool
\* mf is manifest.files: path -> Option of [hash, mtime, chunk_ids]
is_unchanged_in_manifest(path, mf, file_hash, mtime) ==
    IF path \in DOMAIN mf /\ mf[path] # None
    THEN unwrap(mf[path]).hash = file_hash /\ unwrap(mf[path]).mtime = mtime
    ELSE FALSE

\* a mutant of NewManifestEntry: the ids of the written chunks are lost
NewManifestEntryNoIds(file_hash, mtime, ids) ==
    [hash |-> file_hash, mtime |-> mtime, chunk_ids |-> <<>>]

\* ManifestEntry { hash: file_hash, mtime, chunk_ids: chunk_ids_for_manifest }
NewManifestEntry(file_hash, mtime, ids) ==
    [hash |-> file_hash, mtime |-> mtime, chunk_ids |-> ids]

-----------------------------------------------------------------------------
(* run_index_repo, main.rs 966-1163, and the work tree it runs over.        *)
(* The label call and the write call are the function's two await points;   *)
(* the code between two of them is one step.                                *)

F_a_txt == <<97, 46, 116, 120, 116>>
F_b_txt == <<98, 46, 116, 120, 116>>
F_c_MD == <<99, 46, 77, 68>>
F_d_txt == <<100, 46, 116, 120, 116>>
F_gone_txt == <<103, 111, 110, 101, 46, 116, 120, 116>>

\* git ls-files: a.txt, b.txt, c.MD, d.txt
TrackedFiles == <<F_a_txt, F_b_txt, F_c_MD, F_d_txt>>

\* the files whose content changes between runs
EditableFiles == {F_a_txt, F_b_txt}

\* d.txt cannot be read (fs::read fails)
UnreadableFiles == {F_d_txt}

\* every path a manifest of the model can hold
ManifestPaths == Range(TrackedFiles) \cup {F_gone_txt}

\* what a.txt can be rewritten to: "aa", "aaa", or a buffer with a NUL byte
ContentsA == { <<97, 97>>, <<97, 97, 97>>, <<0, 97>> }

\* what b.txt can be rewritten to: "aa" or "aab"
ContentsB == { <<97, 97>>, <<97, 97, 98>> }

ContentsOf(p) == IF p = F_a_txt THEN ContentsA ELSE ContentsB

\* the policy file of the runs: no extension lists, binaries disallowed
DriverConfig ==
    [ allow_extensions  |-> None,
      deny_extensions   |-> None,
      max_file_bytes    |-> None,
      manifest_path     |-> None,
      binary_threshold  |-> Some(33),
      allow_binary      |-> Some(FALSE),
      handlers_disabled |-> None,
      handler_overrides |-> None,
      force_handlers    |-> None ]

\* let handler_ctx = HandlerContext { .. }  (972-978)
HandlerCtx(cfg, o) ==
    [ allow_binary     |-> unwrap_or(cfg.allow_binary, o.allow_binary),
      binary_threshold |-> clamp01(unwrap_or(cfg.binary_threshold, o.binary_threshold)) ]

\* a manifest left by earlier runs: entries for c.MD, d.txt and a file that
\* is no longer tracked
OldEntry == [hash |-> blake3_hash(<<111>>), mtime |-> 1, chunk_ids |-> << <<111>> >>]

StaleManifest ==
    [ p \in ManifestPaths |-> IF p \in {F_c_MD, F_d_txt, F_gone_txt} THEN Some(OldEntry)
                              ELSE None ]

\* the chunk id written to the record and to the manifest (1066-1073):
\* the handler's hint, else "{path}#chunk-{idx}-{file_hash[..8]}"
ChunkId(prepared, path, i, file_hash) ==
    IF prepared.chunk_id_hint # None THEN unwrap(prepared.chunk_id_hint)
    ELSE [path |-> path, idx |-> i, hash8 |-> file_hash]

\* a mutant of AlreadySeen: the dedup set is not consulted
AlreadySeenNever(hash, seen) == FALSE

\* !seen_hashes.insert(hash): the hash was in the set already
AlreadySeen(hash, seen) == hash \in seen

CurrentPath == TrackedFiles[fi]

CurrentData == fs[CurrentPath].bytes

CurrentMeta == [is_file |-> TRUE, len |-> Len(CurrentData)]

Ctx == HandlerCtx(DriverConfig, opts)

Handlers == build_handlers(DriverConfig, opts.chunk_bytes, opts.overlap_bytes, Ctx)

\* let handler = match resolve_handler(..)  (1043)
ResolvedHandler == resolve_handler(Handlers, DriverConfig, CurrentPath, CurrentData, Ctx)

\* the file loop's `continue` conditions, in the order of lines 1008-1051
FileSkipped ==
    IF opts.changed_only # None /\ CurrentPath \notin unwrap(opts.changed_only) THEN TRUE
    ELSE IF CurrentPath \in UnreadableFiles THEN TRUE
    ELSE IF ~should_consider_file(CurrentPath, CurrentMeta, CurrentData, DriverConfig,
                                  opts.max_file_bytes, opts.changed_only, Ctx) THEN TRUE
    ELSE IF is_unchanged_in_manifest(CurrentPath, manifest, blake3_hash(CurrentData),
                                     fs[CurrentPath].mtime) THEN TRUE
    ELSE IF ResolvedHandler = None THEN TRUE
    ELSE Process(unwrap(ResolvedHandler), CurrentPath, CurrentData) = <<>>

DriverInit ==
    /\ fs \in { [ p \in Range(TrackedFiles) |->
                    [bytes |-> IF p = F_a_txt THEN ca ELSE IF p = F_b_txt THEN cb
                               ELSE <<97, 97>>,
                     mtime |-> 1] ] : ca \in ContentsA, cb \in ContentsB }
    /\ disk_manifest = StaleManifest
    /\ opts \in { [ chunk_bytes    |-> c,
                    overlap_bytes  |-> 1,
                    max_file_bytes |-> DefaultMaxFileBytes,
                    changed_only   |-> ch,
                    binary_threshold |-> 33,
                    allow_binary   |-> FALSE,
                    use_llm_labels |-> TRUE ] :
                  c \in {0, 2}, ch \in {None, Some({F_a_txt})} }
    /\ pc = "idle"
    /\ run = 0
    /\ manifest = StaleManifest
    /\ seen_hashes = {}
    /\ fi = 0
    /\ prepared_chunks = <<>>
    /\ idx = 0
    /\ chunk_ids_for_manifest = <<>>
    /\ calls = <<>>
    /\ store = <<>>
    /\ outcome = "none"
    /\ saves = 0
    /\ disk_at_start = disk_manifest
    /\ run_fs = fs
    /\ prev_fs = fs
    /\ prev_outcome = "none"
    /\ edits = 0

\* what a step of the work tree leaves alone
RunUntouched ==
    UNCHANGED <<disk_manifest, opts, pc, run, manifest, seen_hashes, fi, prepared_chunks,
                idx, chunk_ids_for_manifest, calls, store, outcome, saves, disk_at_start,
                run_fs, prev_fs, prev_outcome>>

\* between two runs a file is rewritten; its mtime (whole seconds) moves on
\* or stays
EditFile ==
    /\ pc = "idle"
    /\ run >= 1
    /\ run < MaxRuns
    /\ edits < MaxEdits
    /\ \E p \in EditableFiles, bump \in {0, 1} :
       \E c \in ContentsOf(p) :
          /\ c # fs[p].bytes
          /\ fs' = [fs EXCEPT ![p] = [bytes |-> c, mtime |-> fs[p].mtime + bump]]
    /\ edits' = edits + 1
    /\ RunUntouched

\* between two runs a file is touched: same bytes, later mtime
TouchFile ==
    /\ pc = "idle"
    /\ run >= 1
    /\ run < MaxRuns
    /\ edits < MaxEdits
    /\ \E p \in EditableFiles :
          fs' = [fs EXCEPT ![p].mtime = fs[p].mtime + 1]
    /\ edits' = edits + 1
    /\ RunUntouched

\* between two runs a file is copied over another one
DuplicateFile ==
    /\ pc = "idle"
    /\ run >= 1
    /\ run < MaxRuns
    /\ edits < MaxEdits
    /\ \E p \in EditableFiles, q \in EditableFiles :
          /\ p # q
          /\ fs[p].bytes # fs[q].bytes
          /\ fs' = [fs EXCEPT ![p] = [bytes |-> fs[q].bytes, mtime |-> fs[p].mtime + 1]]
    /\ edits' = edits + 1
    /\ RunUntouched

\* what the start of a run records
RunStarts ==
    /\ run' = run + 1
    /\ saves' = 0
    /\ disk_at_start' = disk_manifest
    /\ run_fs' = fs
    /\ prev_fs' = run_fs
    /\ prev_outcome' = outcome

\* lines 971-1006 with git ls-files and git diff succeeding: the manifest is
\* loaded, the dedup set is empty, the file loop is entered
StartRun ==
    /\ pc = "idle"
    /\ run < MaxRuns
    /\ RunStarts
    /\ manifest' = disk_manifest
    /\ seen_hashes' = {}
    /\ fi' = 1
    /\ pc' = "files"
    /\ outcome' = "running"
    /\ prepared_chunks' = <<>>
    /\ idx' = 0
    /\ chunk_ids_for_manifest' = <<>>
    /\ UNCHANGED <<fs, disk_manifest, opts, calls, store, edits>>

\* git_ls_files()? or git_changed_since(..)? fails: the command ends with
\* the error, after the manifest was loaded
GitListingFails ==
    /\ pc = "idle"
    /\ run < MaxRuns
    /\ RunStarts
    /\ manifest' = disk_manifest
    /\ outcome' = "aborted"
    /\ UNCHANGED <<fs, disk_manifest, opts, pc, seen_hashes, fi, prepared_chunks, idx,
                   chunk_ids_for_manifest, calls, store, edits>>

\* a variant of SkipFile: the skipped file's content enters the dedup set
SkipFileMarksSeen ==
    /\ pc = "files"
    /\ fi <= Len(TrackedFiles)
    /\ FileSkipped
    /\ fi' = fi + 1
    /\ seen_hashes' = seen_hashes \cup {blake3_hash(CurrentData)}
    /\ UNCHANGED <<fs, disk_manifest, opts, pc, run, manifest, prepared_chunks,
                   idx, chunk_ids_for_manifest, historyVars>>

\* a variant of SkipFile: the skipped file's manifest entry is dropped
SkipFileDropsEntry ==
    /\ pc = "files"
    /\ fi <= Len(TrackedFiles)
    /\ FileSkipped
    /\ fi' = fi + 1
    /\ manifest' = [manifest EXCEPT ![CurrentPath] = None]
    /\ UNCHANGED <<fs, disk_manifest, opts, pc, run, seen_hashes, prepared_chunks,
                   idx, chunk_ids_for_manifest, historyVars>>

\* one of the `continue`s of lines 1008-1051
SkipFile ==
    /\ pc = "files"
    /\ fi <= Len(TrackedFiles)
    /\ FileSkipped
    /\ fi' = fi + 1
    /\ UNCHANGED <<fs, disk_manifest, opts, pc, run, manifest, seen_hashes, prepared_chunks,
                   idx, chunk_ids_for_manifest, historyVars>>

\* lines 1043-1054: the handler's chunks are prepared, the chunk loop starts
BeginFile ==
    /\ pc = "files"
    /\ fi <= Len(TrackedFiles)
    /\ ~FileSkipped
    /\ prepared_chunks' = Process(unwrap(ResolvedHandler), CurrentPath, CurrentData)
    /\ idx' = 0
    /\ chunk_ids_for_manifest' = <<>>
    /\ pc' = "chunks"
    /\ UNCHANGED <<fs, disk_manifest, opts, run, manifest, seen_hashes, fi, historyVars>>

CurrentChunk == prepared_chunks[idx + 1]

\* lines 1055-1059: the chunk's hash is in the dedup set: continue
ChunkDedupSkip ==
    /\ pc = "chunks"
    /\ idx < Len(prepared_chunks)
    /\ AlreadySeen(blake3_hash(CurrentChunk.text), seen_hashes)
    /\ idx' = idx + 1
    /\ UNCHANGED <<fs, disk_manifest, opts, pc, run, manifest, seen_hashes, fi,
                   prepared_chunks, chunk_ids_for_manifest, historyVars>>

CallRecord(kind) ==
    [ kind |-> kind, run |-> run, path |-> CurrentPath, idx |-> idx,
      text |-> CurrentChunk.text ]

\* lines 1057-1063: the hash enters the dedup set and the label call is made
ChunkLabel ==
    /\ pc = "chunks"
    /\ idx < Len(prepared_chunks)
    /\ ~AlreadySeen(blake3_hash(CurrentChunk.text), seen_hashes)
    /\ seen_hashes' = seen_hashes \cup {blake3_hash(CurrentChunk.text)}
    /\ calls' = Append(calls, CallRecord("label"))
    /\ pc' = "label"
    /\ UNCHANGED <<fs, disk_manifest, opts, run, manifest, fi, prepared_chunks, idx,
                   chunk_ids_for_manifest, store, outcome, saves, disk_at_start, run_fs,
                   prev_fs, prev_outcome, edits>>

\* the label call returns; lines 1064-1130 build the record and make the
\* write call
LabelReturns ==
    /\ pc = "label"
    /\ calls' = Append(calls, CallRecord("write"))
    /\ pc' = "write"
    /\ UNCHANGED <<fs, disk_manifest, opts, run, manifest, seen_hashes, fi, prepared_chunks,
                   idx, chunk_ids_for_manifest, store, outcome, saves, disk_at_start,
                   run_fs, prev_fs, prev_outcome, edits>>

\* a mutant of AbortRun: the driver checkpoints the manifest when it fails
AbortRunCheckpointing ==
    /\ pc' = "idle"
    /\ outcome' = "aborted"
    /\ disk_manifest' = manifest
    /\ saves' = saves + 1
    /\ UNCHANGED <<fs, opts, run, manifest, seen_hashes, fi, prepared_chunks, idx,
                   chunk_ids_for_manifest, calls, store, disk_at_start, run_fs, prev_fs,
                   prev_outcome, edits>>

\* the `?` of lines 1063 and 1130: the error leaves run_index_repo, nothing
\* is saved
AbortRun ==
    /\ pc' = "idle"
    /\ outcome' = "aborted"
    /\ UNCHANGED <<fs, disk_manifest, opts, run, manifest, seen_hashes, fi, prepared_chunks,
                   idx, chunk_ids_for_manifest, calls, store, saves, disk_at_start, run_fs,
                   prev_fs, prev_outcome, edits>>

\* label_chunk_with_mode(..).await? fails (the LLM completion, when
\* use_llm_labels is set)
LabelFails ==
    /\ pc = "label"
    /\ opts.use_llm_labels
    /\ AbortRun

\* rag_agent.handle(Write).await? fails
WriteFails ==
    /\ pc = "write"
    /\ AbortRun

\* lines 1128-1140: the store accepted the record and returned the memory id
\* it assigned (rag/agent.rs 37-54); the driver's own chunk id is pushed
WriteReturns ==
    /\ pc = "write"
    /\ LET chunk_id == ChunkId(CurrentChunk, CurrentPath, idx, blake3_hash(CurrentData))
       IN  /\ store' = Append(store,
                  [ run |-> run, path |-> CurrentPath, text |-> CurrentChunk.text,
                    chunk_id |-> chunk_id,
                    store_id |-> [memory_id |-> Len(store) + 1] ])
           /\ chunk_ids_for_manifest' = Append(chunk_ids_for_manifest, chunk_id)
    /\ idx' = idx + 1
    /\ pc' = "chunks"
    /\ UNCHANGED <<fs, disk_manifest, opts, run, manifest, seen_hashes, fi, prepared_chunks,
                   calls, outcome, saves, disk_at_start, run_fs, prev_fs, prev_outcome,
                   edits>>

\* a variant of FinishFile: the file's entry is not inserted
FinishFileNoInsert ==
    /\ pc = "chunks"
    /\ idx = Len(prepared_chunks)
    /\ fi' = fi + 1
    /\ pc' = "files"
    /\ UNCHANGED <<fs, disk_manifest, opts, run, manifest, seen_hashes, prepared_chunks,
                   idx, chunk_ids_for_manifest, historyVars>>

\* lines 1143-1152: the chunk loop is over, the file's entry is inserted
FinishFile ==
    /\ pc = "chunks"
    /\ idx = Len(prepared_chunks)
    /\ manifest' = [manifest EXCEPT ![CurrentPath] =
          Some(NewManifestEntry(blake3_hash(CurrentData), fs[CurrentPath].mtime,
                                chunk_ids_for_manifest))]
    /\ fi' = fi + 1
    /\ pc' = "files"
    /\ UNCHANGED <<fs, disk_manifest, opts, run, seen_hashes, prepared_chunks, idx,
                   chunk_ids_for_manifest, historyVars>>

\* a variant of EndRun: only the entries of tracked files are saved
EndRunPrunesUntracked ==
    /\ pc = "files"
    /\ fi > Len(TrackedFiles)
    /\ disk_manifest' = [ p \in ManifestPaths |->
                            IF p \in Range(TrackedFiles) THEN manifest[p] ELSE None ]
    /\ saves' = saves + 1
    /\ outcome' = "completed"
    /\ pc' = "idle"
    /\ UNCHANGED <<fs, opts, run, manifest, seen_hashes, fi, prepared_chunks, idx,
                   chunk_ids_for_manifest, calls, store, disk_at_start, run_fs, prev_fs,
                   prev_outcome, edits>>

\* line 1155: the file loop is over, save_manifest overwrites the file
EndRun ==
    /\ pc = "files"
    /\ fi > Len(TrackedFiles)
    /\ disk_manifest' = manifest
    /\ saves' = saves + 1
    /\ outcome' = "completed"
    /\ pc' = "idle"
    /\ UNCHANGED <<fs, opts, run, manifest, seen_hashes, fi, prepared_chunks, idx,
                   chunk_ids_for_manifest, calls, store, disk_at_start, run_fs, prev_fs,
                   prev_outcome, edits>>

Init ==
    /\ DriverInit
    /\ ChunkIdle
    /\ ResolveIdle
    /\ DataIdle
    /\ CallIdle

Next ==
    \/ EditFile /\ UNCHANGED <<chunkVars, resolveVars, dataVars, callVars>>
    \/ TouchFile /\ UNCHANGED <<chunkVars, resolveVars, dataVars, callVars>>
    \/ DuplicateFile /\ UNCHANGED <<chunkVars, resolveVars, dataVars, callVars>>
    \/ StartRun /\ UNCHANGED <<chunkVars, resolveVars, dataVars, callVars>>
    \/ GitListingFails /\ UNCHANGED <<chunkVars, resolveVars, dataVars, callVars>>
    \/ SkipFile /\ UNCHANGED <<chunkVars, resolveVars, dataVars, callVars>>
    \/ BeginFile /\ UNCHANGED <<chunkVars, resolveVars, dataVars, callVars>>
    \/ ChunkDedupSkip /\ UNCHANGED <<chunkVars, resolveVars, dataVars, callVars>>
    \/ ChunkLabel /\ UNCHANGED <<chunkVars, resolveVars, dataVars, callVars>>
    \/ LabelReturns /\ UNCHANGED <<chunkVars, resolveVars, dataVars, callVars>>
    \/ LabelFails /\ UNCHANGED <<chunkVars, resolveVars, dataVars, callVars>>
    \/ WriteReturns /\ UNCHANGED <<chunkVars, resolveVars, dataVars, callVars>>
    \/ WriteFails /\ UNCHANGED <<chunkVars, resolveVars, dataVars, callVars>>
    \/ FinishFile /\ UNCHANGED <<chunkVars, resolveVars, dataVars, callVars>>
    \/ EndRun /\ UNCHANGED <<chunkVars, resolveVars, dataVars, callVars>>

Spec == Init /\ [][Next]_vars

-----------------------------------------------------------------------------
(* Specification SpecCall: one call of one of the pipeline's functions that  *)
(* the other specifications do not step through, on every argument of a     *)
(* small set.  fn_args.fn names the function.                                *)

\* what extract_symbols may return for a text of length len: at most two
\* symbols named "f", sorted by start_byte, with spans inside the text, the
\* empty span (0, 0) and the span (0, len + 1) that leaves the text
SymbolLists(len, most) ==
    LET spans == { <<s, e>> \in (0..len) \X (0..(len + 1)) :
                      (s < e /\ e <= len) \/ (s = 0 /\ e \in {0, len + 1}) }
        sym(sp) == [ name |-> <<102>>, start_byte |-> sp[1], end_byte |-> sp[2] ]
    IN  { <<>> } \cup { <<sym(a)>> : a \in spans }
        \cup (IF most < 2 THEN {}
              ELSE { <<sym(p[1]), sym(p[2])>> :
                       p \in { q \in spans \X spans : q[2][1] >= q[1][1] /\ q[2] # q[1] } })

\* Whether chunk_code_symbols, called with these arguments, fails to return:
\* the chunk_with_overlap call for one of its symbols makes no progress.
SymbolsDiverge(text, cb, ob, symbols) ==
    \E n \in 1..Len(symbols) :
        LET body == SubSeq(text, symbols[n].start_byte + 1, symbols[n].end_byte)
        IN  /\ symbols[n].end_byte <= Len(text)
            /\ symbols[n].start_byte < symbols[n].end_byte
            /\ \E i \in 1..Len(body) : body[i] \notin {32, 10}
            /\ cb > 0 /\ Len(body) > cb
            /\ Len(chunk_with_overlap(body, cb, ob)) > Len(body)

\* Whether a handler's process, called with these arguments, fails to return:
\* one of its chunk_with_overlap calls, or the row loop of the Data handler,
\* makes no progress.
ProcessDiverges(h, path, bytes, symbols) ==
    LET text     == from_utf8_lossy(bytes)
        stuck(b) == Len(chunk_with_overlap(b, h.chunk_bytes, h.overlap_bytes)) > Len(b)
    IN  CASE h.kind = "text"     -> stuck(text)
          [] h.kind = "binary"   -> FALSE
          [] h.kind = "data"     -> h.max_rows_per_chunk = 0 /\ lines(text) # <<>>
          [] h.kind = "markdown" ->
                LET secs == MarkdownSections(text, h.heading_depth)
                IN  \E g \in 1..Len(secs) : stuck(secs[g].body)
          [] h.kind = "code"     ->
                /\ language_from_extension(path) # None
                /\ \/ SymbolsDiverge(text, h.chunk_bytes, h.overlap_bytes, symbols)
                   \/ /\ chunk_code_symbols(text, h.chunk_bytes, h.overlap_bytes,
                                            symbols) = <<>>
                      /\ stuck(text)

\* the arguments of handler.process: a handler as build_handlers makes it
\* (the fields its kind does not use are 0), a path and at most n bytes it
\* supports
ProcessArgs(n) ==
    LET H(kind, cb, ob, hd, rows) ==
            [ kind |-> kind, chunk_bytes |-> cb, overlap_bytes |-> ob,
              heading_depth |-> hd, max_rows_per_chunk |-> rows ]
        A(h, path, bytes, symbols) ==
            [ fn |-> "process", h |-> h, path |-> path, bytes |-> bytes,
              symbols |-> symbols ]
    IN  { A(H("text", cb, ob, 0, 0), P_notes_txt, b, <<>>) :
            cb \in {0, 2}, ob \in {0, 1, 2}, b \in SeqsUpTo({97, 10}, n) }
        \cup
        { A(H("binary", 0, 0, 0, 0), P_img, b, <<>>) : b \in SeqsUpTo({0, 97}, 2) }
        \cup
        { A(H("data", cb, 0, 0, rows), P_data_csv, b, <<>>) :
            cb \in {0, 2}, rows \in 0..MaxRows, b \in SeqsUpTo({97, 10}, n) }
        \cup
        { A(H("markdown", cb, ob, hd, 0), P_readme_md, b, <<>>) :
            cb \in {0, 2, n + 2}, ob \in {0, 2}, hd \in {0, 1, DefaultHeadingDepth},
            b \in SeqsUpTo({35, 32, 97, 10}, n) }
        \cup
        UNION { { A(H("code", cb, ob, 0, 0), P_main_rs, b, syms) :
                    cb \in {0, 2}, ob \in {0, 1, 2}, syms \in SymbolLists(Len(b), 1) } :
                b \in SeqsUpTo({97, 32}, n) }

\* the arguments of chunk_code_symbols on a text of at most n bytes, with the
\* parse's result
SymbolArgs(n) ==
    UNION { { [ fn |-> "chunk_code_symbols", text |-> b, chunk_bytes |-> cb,
                overlap_bytes |-> ob, symbols |-> syms ] :
                cb \in {0, 2}, ob \in {0, 1, 2}, syms \in SymbolLists(Len(b), 2) } :
            b \in SeqsUpTo({97, 32}, n) }

InitCall ==
    /\ fn_args \in ProcessArgs(MaxLen) \cup SymbolArgs(MaxLen)
    /\ fn_ret = None
    /\ fn_pc = "call"
    /\ ChunkIdle
    /\ ResolveIdle
    /\ DriverIdle
    /\ DataIdle

\* handler.process(path, bytes, ctx)
CallProcess ==
    /\ fn_pc = "call"
    /\ fn_args.fn = "process"
    /\ IF ProcessDiverges(fn_args.h, fn_args.path, fn_args.bytes, fn_args.symbols)
       THEN fn_pc' = "diverged" /\ fn_ret' = None
       ELSE /\ fn_pc' = "done"
            /\ fn_ret' = IF fn_args.h.kind = "code"
                         THEN CodeProcess(fn_args.h, fn_args.path, fn_args.bytes,
                                          fn_args.symbols)
                         ELSE Process(fn_args.h, fn_args.path, fn_args.bytes)
    /\ UNCHANGED fn_args

\* chunk_code_symbols(content, chunk_bytes, overlap_bytes, lang)
CallChunkCodeSymbols ==
    /\ fn_pc = "call"
    /\ fn_args.fn = "chunk_code_symbols"
    /\ IF SymbolsDiverge(fn_args.text, fn_args.chunk_bytes, fn_args.overlap_bytes,
                         fn_args.symbols)
       THEN fn_pc' = "diverged" /\ fn_ret' = None
       ELSE /\ fn_pc' = "done"
            /\ fn_ret' = chunk_code_symbols(fn_args.text, fn_args.chunk_bytes,
                                            fn_args.overlap_bytes, fn_args.symbols)
    /\ UNCHANGED fn_args

NextCall ==
    \/ CallProcess /\ UNCHANGED <<chunkVars, resolveVars, driverVars, historyVars, dataVars>>
    \/ CallChunkCodeSymbols
          /\ UNCHANGED <<chunkVars, resolveVars, driverVars, historyVars, dataVars>>

SpecCall == InitCall /\ [][NextCall]_vars

-----------------------------------------------------------------------------
(* Specification SpecFilter: one call of one of the filter's predicates     *)
(* (is_probably_binary_with_threshold, is_unchanged_in_manifest,            *)
(* should_consider_file), or of the start of run_index_repo that sets the   *)
(* filter up, on every argument of a small set.                             *)

\* NUL, TAB, LF, CR, the last control byte, the first and last printable
\* bytes, and DEL
BinaryAlphabet == {0, 9, 10, 13, 31, 32, 126, 127}

\* thresholds in hundredths: below 0, 0, around 1/3, 1/2, 1 and above 1
CallThresholds == {-50, 0, 33, 34, 50, 100, 150}

IsBinaryArgs ==
    { [ fn |-> "is_probably_binary_with_threshold", bytes |-> b, threshold |-> t ] :
        b \in SeqsUpTo(BinaryAlphabet, MaxBytes), t \in CallThresholds }

\* manifests over two paths, each with no entry or an entry of one of two
\* hashes and two mtimes; the query also asks for a path the manifest lacks
IsUnchangedArgs ==
    LET hashes  == { blake3_hash(<<97>>), blake3_hash(<<98>>) }
        entries == {None} \cup { Some([hash |-> h, mtime |-> m, chunk_ids |-> <<>>]) :
                                   h \in hashes, m \in 1..2 }
    IN  { [ fn |-> "is_unchanged_in_manifest", path |-> p, manifest |-> mf,
            file_hash |-> h, mtime |-> m ] :
            p \in {P_notes_txt, P_readme_md, P_doc_MD},
            mf \in [ {P_notes_txt, P_readme_md} -> entries ],
            h \in hashes, m \in 1..2 }

\* should_consider_file on a path with a lower-case extension, one with an
\* upper-case extension and one without extension
ShouldConsiderArgs ==
    { [ fn |-> "should_consider_file", path |-> p,
        meta |-> [ is_file |-> f, len |-> n ], data |-> d,
        cfg |-> [ allow_extensions |-> al, deny_extensions |-> dn,
                  max_file_bytes |-> mx ],
        max_file_bytes_flag |-> flag, changed_only |-> ch,
        ctx |-> [ allow_binary |-> ab, binary_threshold |-> 33 ] ] :
        p \in {P_notes_txt, P_doc_MD, P_img},
        f \in BOOLEAN, n \in {0, 1, 3}, d \in { <<>>, <<97>>, <<0>> },
        al \in { None, Some({}), Some({E_txt}), Some({E_md}), Some({E_txt, E_md}) },
        dn \in { None, Some({E_md}), Some({<<77, 68>>}), Some({E_txt}) },
        mx \in { None, Some(2) }, flag \in {1, 3},
        ch \in { None, Some({}), Some({P_notes_txt}) },
        ab \in BOOLEAN }

\* load_ingest_config: without a readable, parseable policy file the built-in
\* policy is used.  Its allow list is rs, md, toml, json, yml, yaml, ts, tsx,
\* js, jsx and its deny list lock, bin, exe, dll.
BuiltinConfig ==
    [ allow_extensions  |-> Some({ E_rs, E_md, <<116, 111, 109, 108>>, E_json,
                                   <<121, 109, 108>>, <<121, 97, 109, 108>>,
                                   E_ts, E_tsx, E_js, E_jsx }),
      deny_extensions   |-> Some({ <<108, 111, 99, 107>>, <<98, 105, 110>>,
                                   <<101, 120, 101>>, <<100, 108, 108>> }),
      max_file_bytes    |-> None,
      manifest_path     |-> None,
      binary_threshold  |-> Some(33),
      allow_binary      |-> Some(FALSE),
      handlers_disabled |-> None,
      handler_overrides |-> None,
      force_handlers    |-> None ]

\* fn load_ingest_config() -> IngestConfig; policy_file is None when the file
\* is missing or does not parse, else the parsed policy
load_ingest_config(policy_file) ==
    IF policy_file = None THEN BuiltinConfig ELSE unwrap(policy_file)

\* a policy file whose only setting is handler_overrides.text.max_file_bytes = 2
TextLimitPolicy ==
    [ ConfigWith(None, None) EXCEPT !.handler_overrides =
        Some([ n \in {S_text} |->
                 [ chunk_bytes |-> None, overlap_bytes |-> None,
                   max_file_bytes |-> Some(2), heading_depth |-> None,
                   max_rows_per_chunk |-> None ] ]) ]

\* the start of run_index_repo for one command line and one file: with no
\* policy file, or with a policy file that sets nothing, sets allow_binary,
\* or limits the files of the text handler
RunSetupArgs ==
    { [ fn |-> "run_index_repo", policy_file |-> pf,
        opts |-> [ chunk_bytes |-> DefaultChunkBytes,
                   overlap_bytes |-> DefaultOverlapBytes,
                   max_file_bytes |-> DefaultMaxFileBytes,
                   binary_threshold |-> t, allow_binary |-> ab ],
        path |-> p, data |-> d ] :
        pf \in { None, Some(ConfigWith(None, None)),
                 Some([ ConfigWith(None, None) EXCEPT !.allow_binary = Some(TRUE) ]),
                 Some(TextLimitPolicy) },
        t \in {0, 33, 100, 150}, ab \in BOOLEAN,
        p \in {P_main_rs, P_blob_json, P_notes_txt, P_img},
        d \in { <<97>>, <<0>>, <<97, 1>>, <<97, 97, 97, 1>>, <<255>> } }

InitFilter ==
    /\ fn_args \in IsBinaryArgs \cup IsUnchangedArgs \cup ShouldConsiderArgs
                   \cup RunSetupArgs
    /\ fn_ret = None
    /\ fn_pc = "call"
    /\ ChunkIdle
    /\ ResolveIdle
    /\ DriverIdle
    /\ DataIdle

\* is_probably_binary_with_threshold(bytes, threshold)
CallIsBinary ==
    /\ fn_pc = "call"
    /\ fn_args.fn = "is_probably_binary_with_threshold"
    /\ fn_ret' = Some(is_probably_binary_with_threshold(fn_args.bytes, fn_args.threshold))
    /\ fn_pc' = "done"
    /\ UNCHANGED fn_args

\* is_unchanged_in_manifest(path, manifest, file_hash, mtime)
CallIsUnchanged ==
    /\ fn_pc = "call"
    /\ fn_args.fn = "is_unchanged_in_manifest"
    /\ fn_ret' = Some(is_unchanged_in_manifest(fn_args.path, fn_args.manifest,
                                               fn_args.file_hash, fn_args.mtime))
    /\ fn_pc' = "done"
    /\ UNCHANGED fn_args

\* should_consider_file(path, meta, data, ingest_config, max_file_bytes_flag,
\*                      changed_only, handler_ctx)
CallShouldConsider ==
    /\ fn_pc = "call"
    /\ fn_args.fn = "should_consider_file"
    /\ fn_ret' = Some(should_consider_file(fn_args.path, fn_args.meta, fn_args.data,
                                           fn_args.cfg, fn_args.max_file_bytes_flag,
                                           fn_args.changed_only, fn_args.ctx))
    /\ fn_pc' = "done"
    /\ UNCHANGED fn_args

\* run_index_repo, lines 971-984 and 1024-1046: the policy is loaded, the
\* HandlerContext and the registry are built, and the file is put to the
\* filter and to the dispatcher
CallRunSetup ==
    /\ fn_pc = "call"
    /\ fn_args.fn = "run_index_repo"
    /\ LET cfg == load_ingest_config(fn_args.policy_file)
           ctx == HandlerCtx(cfg, fn_args.opts)
       IN  fn_ret' = Some([ ctx      |-> ctx,
                            handlers |-> build_handlers(cfg, fn_args.opts.chunk_bytes,
                                                        fn_args.opts.overlap_bytes, ctx),
                            handler  |-> resolve_handler(
                                            build_handlers(cfg, fn_args.opts.chunk_bytes,
                                                           fn_args.opts.overlap_bytes, ctx),
                                            cfg, fn_args.path, fn_args.data, ctx),
                            consider |-> should_consider_file(
                                            fn_args.path,
                                            [is_file |-> TRUE, len |-> Len(fn_args.data)],
                                            fn_args.data, cfg,
                                            fn_args.opts.max_file_bytes, None, ctx) ])
    /\ fn_pc' = "done"
    /\ UNCHANGED fn_args

NextFilter ==
    \/ CallIsBinary
          /\ UNCHANGED <<chunkVars, resolveVars, driverVars, historyVars, dataVars>>
    \/ CallIsUnchanged
          /\ UNCHANGED <<chunkVars, resolveVars, driverVars, historyVars, dataVars>>
    \/ CallShouldConsider
          /\ UNCHANGED <<chunkVars, resolveVars, driverVars, historyVars, dataVars>>
    \/ CallRunSetup
          /\ UNCHANGED <<chunkVars, resolveVars, driverVars, historyVars, dataVars>>

SpecFilter == InitFilter /\ [][NextFilter]_vars

-----------------------------------------------------------------------------
(* Claims about the driver (Spec) *)

\* the calls of the latest run made for path p
CallsFor(p) == SelectSeq(calls, LAMBDA c : c.run = run /\ c.path = p)

\* the chunk ids of the records the store accepted for path p in the latest
\* run, in write order
WrittenIds(p) ==
    LET ws == SelectSeq(store, LAMBDA r : r.run = run /\ r.path = p)
    IN  [ i \in 1..Len(ws) |-> ws[i].chunk_id ]

\* position of path p in the file list
FileIndex(p) == CHOOSE i \in 1..Len(TrackedFiles) : TrackedFiles[i] = p

\* C1: across any sequence of index-repo runs over an evolving repository,
\* no chunk content (same chunk text hash) is written to the memory store
\* more than once.
C1_NoContentWrittenTwice ==
    \A i, j \in 1..Len(store) :
        i # j => blake3_hash(store[i].text) # blake3_hash(store[j].text)

\* C2: a file whose bytes and mtime are the same in two consecutive runs, the
\* first of which completed, gets no label call and no write call in the
\* second run.
C2_UnchangedFileNoCalls ==
    (run >= 2 /\ prev_outcome = "completed") =>
        \A p \in Range(TrackedFiles) :
            (run_fs[p] = prev_fs[p]) => CallsFor(p) = <<>>

\* the second run completed and wrote chunks of b.txt, which had changed,
\* while a.txt, indexed by the first run, was the same in both
C2_Witness ==
    /\ run = 2
    /\ prev_outcome = "completed"
    /\ outcome = "completed"
    /\ run_fs[F_a_txt] = prev_fs[F_a_txt]
    /\ \E k \in 1..Len(store) : store[k].run = 1 /\ store[k].path = F_a_txt
    /\ \E k \in 1..Len(store) : store[k].run = 2 /\ store[k].path = F_b_txt

\* C3: within one run no two label calls and no two write calls carry chunks
\* with the same content hash: a chunk whose hash was seen earlier in the
\* run, in the same file or an earlier one, gets neither call.
C3_NoDuplicateCallsInRun ==
    \A i, j \in 1..Len(calls) :
        (i # j /\ calls[i].run = calls[j].run /\ calls[i].kind = calls[j].kind)
            => blake3_hash(calls[i].text) # blake3_hash(calls[j].text)

\* the first run completed with a.txt = "aaa" and b.txt = "aa": one record
\* stored, the second chunk of a.txt and the chunk of b.txt skipped
C3_Witness ==
    /\ run = 1
    /\ outcome = "completed"
    /\ run_fs[F_a_txt].bytes = <<97, 97, 97>>
    /\ run_fs[F_b_txt].bytes = <<97, 97>>
    /\ Len(store) = 1
    /\ manifest[F_b_txt] # None
    /\ unwrap(manifest[F_b_txt]).chunk_ids = <<>>

\* C4: the manifest file is written at most once per run and only after the
\* file loop has passed every file; while a run is under way, and after a
\* label call, a write call or the git listing failed, the manifest file is
\* what it was at run start.
C4_ManifestSavedOnceAtEnd ==
    /\ saves <= 1
    /\ (saves = 1) => (outcome = "completed" /\ fi > Len(TrackedFiles))
    /\ (outcome \in {"running", "aborted"}) =>
          (saves = 0 /\ disk_manifest = disk_at_start)

\* a run aborted after a.txt had been fully processed: its entry is in the
\* run's manifest and not in the file
C4_Witness ==
    /\ outcome = "aborted"
    /\ fi = 2
    /\ manifest[F_a_txt] # None
    /\ disk_manifest[F_a_txt] = None
    /\ \E k \in 1..Len(store) : store[k].run = run /\ store[k].path = F_a_txt

\* C5: a file's manifest entry is inserted or replaced only after the chunk
\* loop has handled every chunk of the file; the new entry holds the file's
\* current hash and mtime, and its chunk_ids are the ids of the records
\* written for that file in this run, in write order (dedup-skipped chunks
\* contribute none).
C5_EntryAfterAllChunks ==
    (run >= 1) =>
        \A p \in Range(TrackedFiles) :
            (manifest[p] # disk_at_start[p]) =>
                /\ FileIndex(p) < fi
                /\ manifest[p] = Some([ hash      |-> blake3_hash(run_fs[p].bytes),
                                        mtime     |-> run_fs[p].mtime,
                                        chunk_ids |-> WrittenIds(p) ])

\* a.txt = "aaa" gave two chunks, one written and one skipped; its entry was
\* inserted with the one id
C5_Witness ==
    /\ pc = "files"
    /\ fi = 2
    /\ Len(prepared_chunks) = 2
    /\ manifest[F_a_txt] # disk_at_start[F_a_txt]
    /\ manifest[F_a_txt] # None
    /\ Len(unwrap(manifest[F_a_txt]).chunk_ids) = 1

-----------------------------------------------------------------------------
(* Claims about chunk_with_overlap (SpecChunk, SpecChunkFair) *)

\* C6: for every content, every chunk_bytes > 0 and every overlap_bytes
\* (overlap_bytes >= chunk_bytes included), chunk_with_overlap terminates:
\* the call eventually returns.
C6_Terminates == (chunk_bytes > 0) => <>(cw_pc = "done")

\* C7: for a buffer of length len and 0 < overlap_bytes < chunk_bytes < len,
\* the returned windows have strictly increasing start offsets, the first
\* starts at 0, the last ends at len, and each consecutive pair overlaps by
\* exactly min(overlap_bytes, chunk_bytes, length of the earlier window).
C7_Windows ==
    (/\ cw_pc = "done"
     /\ 0 < overlap_bytes
     /\ overlap_bytes < chunk_bytes
     /\ chunk_bytes < Len(content))
    => /\ Len(chunks) >= 1
       /\ chunks[1].from = 0
       /\ chunks[Len(chunks)].to = Len(content)
       /\ \A i \in 1..(Len(chunks) - 1) :
            /\ chunks[i].from < chunks[i + 1].from
            /\ chunks[i].to - chunks[i + 1].from
                 = Min(Min(overlap_bytes, chunk_bytes), chunks[i].to - chunks[i].from)

\* a call in C7's range has returned several windows, the last one short
C7_Witness ==
    /\ cw_pc = "done"
    /\ 0 < overlap_bytes
    /\ overlap_bytes < chunk_bytes
    /\ chunk_bytes < Len(content)
    /\ Len(chunks) >= 2
    /\ chunks[Len(chunks)].to - chunks[Len(chunks)].from < chunk_bytes

-----------------------------------------------------------------------------
(* Claims about the handler dispatcher (SpecResolve) *)

\* the file's extension has no force_handlers entry
NoForceEntry ==
    \/ rs_cfg.force_handlers = None
    \/ extension_lower(rs_path) = None
    \/ unwrap(extension_lower(rs_path)) \notin DOMAIN unwrap(rs_cfg.force_handlers)

\* position in the priority order Code, Markdown, Data, PlainText, Binary
PriorityRank(kind) ==
    CASE kind = "code"     -> 1
      [] kind = "markdown" -> 2
      [] kind = "data"     -> 3
      [] kind = "text"     -> 4
      [] kind = "binary"   -> 5

\* the file is text under the call's context: not empty, valid UTF-8, and
\* not binary for the classifier
IsPlainContent ==
    /\ rs_data # <<>>
    /\ is_valid_utf8(rs_data)
    /\ ~is_probably_binary_with_threshold(rs_data, rs_ctx.binary_threshold)

ResolvedKind == IF rs_handler = None THEN "none" ELSE unwrap(rs_handler).kind

\* C8: the registry lists its handlers in the order Code, Markdown, Data,
\* PlainText, Binary; when the file's extension has no force_handlers entry,
\* resolve_handler returns the first registered handler whose supports
\* accepts the file (none when no registered handler accepts); and with no
\* handler disabled, text content resolves main.rs to Code, readme.md to
\* Markdown, data.csv to Data and notes.txt to PlainText.
C8_FirstInPriorityOrder ==
    (rs_pc = "done") =>
       /\ \A i, j \in 1..Len(rs_handlers) :
            i < j => PriorityRank(rs_handlers[i].kind) < PriorityRank(rs_handlers[j].kind)
       /\ NoForceEntry =>
            /\ (rs_handler = None) <=>
                 (\A i \in 1..Len(rs_handlers) :
                     ~Supports(rs_handlers[i], rs_path, rs_data, rs_ctx))
            /\ (rs_handler # None) =>
                 \E i \in 1..Len(rs_handlers) :
                    /\ rs_handlers[i] = unwrap(rs_handler)
                    /\ Supports(rs_handlers[i], rs_path, rs_data, rs_ctx)
                    /\ \A k \in 1..(i - 1) :
                         ~Supports(rs_handlers[k], rs_path, rs_data, rs_ctx)
       /\ (/\ NoForceEntry
           /\ rs_cfg.handlers_disabled \in {None, Some({})}
           /\ IsPlainContent) =>
            /\ (rs_path = P_main_rs)   => ResolvedKind = "code"
            /\ (rs_path = P_readme_md) => ResolvedKind = "markdown"
            /\ (rs_path = P_data_csv)  => ResolvedKind = "data"
            /\ (rs_path = P_notes_txt) => ResolvedKind = "text"

\* blob.json, which both Data and PlainText accept, has resolved to Data by
\* registry order
C8_Witness ==
    /\ rs_pc = "done"
    /\ NoForceEntry
    /\ rs_path = P_blob_json
    /\ ResolvedKind = "data"
    /\ \E i \in 1..Len(rs_handlers) :
          /\ rs_handlers[i].kind = "text"
          /\ Supports(rs_handlers[i], rs_path, rs_data, rs_ctx)

\* C9: with allow_binary unset, a file the classifier deems binary reaches
\* no handler, whatever its extension, the force_handlers mapping and the
\* handlers_disabled set: the Binary handler is not registered, every
\* registered handler's supports rejects the file, resolve_handler returns
\* None, and should_consider_file rejects the file.
C9_BinaryRejectedWhenDisallowed ==
    (/\ rs_pc = "done"
     /\ ~rs_ctx.allow_binary
     /\ is_probably_binary_with_threshold(rs_data, rs_ctx.binary_threshold))
    => /\ \A i \in 1..Len(rs_handlers) :
            /\ rs_handlers[i].kind # "binary"
            /\ ~Supports(rs_handlers[i], rs_path, rs_data, rs_ctx)
       /\ rs_handler = None
       /\ rs_consider = FALSE

\* a binary notes.txt, with txt forced to the binary handler and binary
\* ingestion off, went through the dispatcher
C9_Witness ==
    /\ rs_pc = "done"
    /\ ~rs_ctx.allow_binary
    /\ is_probably_binary_with_threshold(rs_data, rs_ctx.binary_threshold)
    /\ rs_path = P_notes_txt
    /\ rs_cfg.force_handlers = Some([ e \in {E_txt} |-> S_binary ])
    /\ Len(rs_handlers) = 4

\* C10: a file whose bytes the classifier deems binary is never chunked by
\* content, under every policy and extension: Code, Markdown, Data and
\* PlainText reject it, so it resolves to the Binary handler or to none.
C10_BinaryNeverChunkedByContent ==
    (/\ rs_pc = "done"
     /\ is_probably_binary_with_threshold(rs_data, rs_ctx.binary_threshold))
    => /\ \A i \in 1..Len(rs_handlers) :
            rs_handlers[i].kind # "binary"
               => ~Supports(rs_handlers[i], rs_path, rs_data, rs_ctx)
       /\ ResolvedKind \in {"none", "binary"}

-----------------------------------------------------------------------------
(* Claims about DataHandler::process (SpecData, SpecDataFair) *)

\* the row ranges of the chunks the call returned
RowRanges == [ i \in 1..Len(dh_prepared) |-> unwrap(dh_prepared[i].row_range) ]

\* C15: for a data file with n >= 1 lines and max_rows_per_chunk = k >= 1 the
\* call returns ceil(n / k) chunks; their row ranges [start, end) start at 0,
\* end at n, follow one another without gap or overlap and span exactly k
\* rows except possibly the last; chunk_index is the chunk's position.
C15_RowWindows ==
    (dh_pc = "done" /\ Len(DhLines) >= 1 /\ max_rows_per_chunk >= 1) =>
        LET n == Len(DhLines)
            k == max_rows_per_chunk
            m == Len(dh_prepared)
        IN  /\ m = (n + k - 1) \div k
            /\ \A i \in 1..m : "row_range" \in DOMAIN dh_prepared[i]
            /\ RowRanges[1][1] = 0
            /\ RowRanges[m][2] = n
            /\ \A i \in 1..m :
                  /\ dh_prepared[i].chunk_index = i - 1
                  /\ RowRanges[i][1] < RowRanges[i][2]
                  /\ (i < m) => /\ RowRanges[i][2] - RowRanges[i][1] = k
                                /\ RowRanges[i + 1][1] = RowRanges[i][2]
                  /\ (i = m) => RowRanges[i][2] - RowRanges[i][1] <= k
                  /\ dh_prepared[i].text
                       = join(SubSeq(DhLines, RowRanges[i][1] + 1, RowRanges[i][2]))

\* three lines with two rows per chunk gave the ranges [0,2) and [2,3)
C15_Witness ==
    /\ dh_pc = "done"
    /\ Len(DhLines) = 3
    /\ max_rows_per_chunk = 2
    /\ Len(dh_prepared) = 2
    /\ dh_prepared[1].row_range = Some(<<0, 2>>)
    /\ dh_prepared[2].row_range = Some(<<2, 3>>)

\* C19: for every supported file and every max_rows_per_chunk a policy can
\* supply, 0 included, the call returns.
C19_Returns == <>(dh_pc = "done")

\* C19, for the calls that return: at least one chunk comes back, and for a
\* content without lines exactly one, holding the whole content, tagged
\* ingest_mode "data" and without row_range.
C19_AtLeastOneChunk ==
    (dh_pc = "done") =>
        /\ Len(dh_prepared) >= 1
        /\ (Len(DhLines) = 0) =>
              /\ Len(dh_prepared) = 1
              /\ dh_prepared[1].text = from_utf8_lossy(dh_bytes)
              /\ dh_prepared[1].ingest_mode = "data"
              /\ "row_range" \notin DOMAIN dh_prepared[1]

(***************************************************************************)
(* Claims about single calls (SpecCall)                                    *)
(***************************************************************************)

\* C11: every PreparedChunk a handler's process returns, for every content
\* and every handler setting, has a non-empty text.
C11_ChunkTextNonEmpty ==
    (fn_args.fn = "process" /\ fn_pc = "done") =>
        \A i \in 1..Len(fn_ret) : fn_ret[i].text # <<>>

\* the valid symbols of a chunk_code_symbols call: spans inside the text
\* whose bytes are not all whitespace, in the order of the parse
ValidSymbols ==
    SelectSeq(fn_args.symbols,
              LAMBDA sym :
                  /\ sym.end_byte <= Len(fn_args.text)
                  /\ sym.start_byte < sym.end_byte
                  /\ \E i \in (sym.start_byte + 1)..sym.end_byte :
                        fn_args.text[i] \notin {32, 10})

\* the SymbolChunks emitted for one symbol, in emission order
ChunksOf(sym) == SelectSeq(fn_ret, LAMBDA c : c.symbol = sym)

\* C12: chunk_code_symbols returns, every SymbolChunk has part_index <
\* part_count, a symbol whose span is at most chunk_bytes yields one chunk
\* (part 0 of 1), and a symbol whose span exceeds chunk_bytes yields at least
\* two parts sharing part_count = the number of parts, part_index running
\* 0..part_count-1 in emission order.
C12_SymbolParts ==
    (fn_args.fn = "chunk_code_symbols" /\ fn_pc # "call") =>
        /\ fn_pc = "done"
        /\ \A i \in 1..Len(fn_ret) : fn_ret[i].part_index < fn_ret[i].part_count
        /\ \A n \in 1..Len(ValidSymbols) :
              LET sym  == ValidSymbols[n]
                  span == sym.end_byte - sym.start_byte
                  cs   == ChunksOf(sym)
              IN  /\ (span <= fn_args.chunk_bytes) =>
                        /\ Len(cs) = 1
                        /\ cs[1].part_index = 0
                        /\ cs[1].part_count = 1
                  /\ (span > fn_args.chunk_bytes) =>
                        /\ Len(cs) >= 2
                        /\ \A i \in 1..Len(cs) :
                              /\ cs[i].part_count = Len(cs)
                              /\ cs[i].part_index = i - 1

-----------------------------------------------------------------------------
(***************************************************************************)
(* Claims about the filter's predicates (SpecFilter)                       *)
(***************************************************************************)

\* C13: a buffer containing a NUL byte is binary for every threshold, an
\* empty buffer is not binary for every threshold (0 included), and any
\* other buffer is binary iff (bytes outside {TAB, CR, LF} and 0x20..0x7E) /
\* length >= threshold clamped to [0, 1].
C13_IsBinary ==
    (fn_args.fn = "is_probably_binary_with_threshold" /\ fn_pc = "done") =>
        LET b       == fn_args.bytes
            outside == Cardinality({ i \in 1..Len(b) :
                                       b[i] \notin ({9, 13, 10} \cup (32..126)) })
            clamped == IF fn_args.threshold < 0 THEN 0
                       ELSE IF fn_args.threshold > 100 THEN 100
                       ELSE fn_args.threshold
        IN  /\ (\E i \in 1..Len(b) : b[i] = 0) => unwrap(fn_ret) = TRUE
            /\ (b = <<>>) => unwrap(fn_ret) = FALSE
            /\ (b # <<>> /\ \A i \in 1..Len(b) : b[i] # 0) =>
                  (unwrap(fn_ret) <=> (outside * 100 >= clamped * Len(b)))

\* one DEL among three bytes is binary at the threshold 0.33
C13_Witness ==
    /\ fn_pc = "done"
    /\ fn_args.fn = "is_probably_binary_with_threshold"
    /\ fn_args.bytes = <<127, 32, 32>>
    /\ fn_args.threshold = 33
    /\ fn_ret = Some(TRUE)

\* C14: is_unchanged_in_manifest is true iff the manifest holds an entry for
\* that exact path whose hash equals hash and whose mtime equals mtime.
C14_UnchangedIffSameHashAndMtime ==
    (fn_args.fn = "is_unchanged_in_manifest" /\ fn_pc = "done") =>
        (unwrap(fn_ret) <=>
            /\ fn_args.path \in DOMAIN fn_args.manifest
            /\ \E e \in [hash : {fn_args.file_hash}, mtime : {fn_args.mtime},
                         chunk_ids : {<<>>}] :
                  fn_args.manifest[fn_args.path] = Some(e))

\* an entry with the same mtime and another hash: not unchanged
C14_Witness ==
    /\ fn_pc = "done"
    /\ fn_args.fn = "is_unchanged_in_manifest"
    /\ fn_args.path \in DOMAIN fn_args.manifest
    /\ fn_args.manifest[fn_args.path] # None
    /\ unwrap(fn_args.manifest[fn_args.path]).mtime = fn_args.mtime
    /\ unwrap(fn_args.manifest[fn_args.path]).hash # fn_args.file_hash
    /\ fn_ret = Some(FALSE)

\* The reasons for which the filter rejects the file of a should_consider_file
\* call.  The extension is looked up lower-cased; no_extension tells whether a
\* file without extension counts as absent from a configured allow list.
FilterRejects(no_extension) ==
    LET a   == fn_args
        ext == extension_lower(a.path)
    IN  \/ a.changed_only # None /\ a.path \notin unwrap(a.changed_only)
        \/ ~a.meta.is_file
        \/ a.meta.len = 0
        \/ a.data = <<>>
        \/ a.meta.len > (IF a.cfg.max_file_bytes # None
                         THEN unwrap(a.cfg.max_file_bytes)
                         ELSE a.max_file_bytes_flag)
        \/ /\ a.cfg.deny_extensions # None
           /\ ext # None
           /\ unwrap(ext) \in unwrap(a.cfg.deny_extensions)
        \/ /\ a.cfg.allow_extensions # None
           /\ IF ext = None THEN no_extension
              ELSE unwrap(ext) \notin unwrap(a.cfg.allow_extensions)
        \/ /\ ~a.ctx.allow_binary
           /\ is_probably_binary_with_threshold(a.data, a.ctx.binary_threshold)

\* an extension present in both lists is rejected
DenyWins ==
    LET ext == extension_lower(fn_args.path)
    IN  (/\ ext # None
         /\ fn_args.cfg.allow_extensions # None
         /\ fn_args.cfg.deny_extensions # None
         /\ unwrap(ext) \in unwrap(fn_args.cfg.allow_extensions)
         /\ unwrap(ext) \in unwrap(fn_args.cfg.deny_extensions))
        => fn_ret = Some(FALSE)

\* C17, as stated: the file is rejected iff it is outside the changed-since
\* set, is not a regular file, has zero length, exceeds max_file_bytes, has a
\* denied extension, has an extension absent from a configured allow list, or
\* is binary while binary is disallowed; deny wins.
C17_RejectsIffAsStated ==
    (fn_args.fn = "should_consider_file" /\ fn_pc = "done") =>
        /\ unwrap(fn_ret) <=> ~FilterRejects(FALSE)
        /\ DenyWins

\* C17, amended: as above, where under a configured allow list a file is
\* also rejected when it has no extension at all.
C17_RejectsIff ==
    (fn_args.fn = "should_consider_file" /\ fn_pc = "done") =>
        /\ unwrap(fn_ret) <=> ~FilterRejects(TRUE)
        /\ DenyWins

\* a readable text file without extension is rejected under an allow list
C17_Witness ==
    /\ fn_pc = "done"
    /\ fn_args.fn = "should_consider_file"
    /\ fn_args.path = P_img
    /\ fn_args.cfg.allow_extensions = Some({E_txt})
    /\ fn_args.cfg.deny_extensions = None
    /\ fn_args.cfg.max_file_bytes = None
    /\ fn_args.changed_only = None
    /\ fn_args.meta = [is_file |-> TRUE, len |-> 1]
    /\ fn_args.data = <<97>>
    /\ fn_ret = Some(FALSE)

-----------------------------------------------------------------------------
(***************************************************************************)
(* Claims about MarkdownHandler::process (SpecCall)                        *)
(***************************************************************************)

RECURSIVE SkipLeading(_, _)
\* s without its leading characters of the set cs
SkipLeading(s, cs) ==
    IF s # <<>> /\ s[1] \in cs THEN SkipLeading(Tail(s), cs) ELSE s

RECURSIVE SkipTrailing(_, _)
\* s without its trailing characters of the set cs
SkipTrailing(s, cs) ==
    IF s # <<>> /\ s[Len(s)] \in cs
    THEN SkipTrailing(SubSeq(s, 1, Len(s) - 1), cs) ELSE s

\* the number of '#' a line starts with, after its indentation (0: the line
\* is not a heading line)
HashDepth(line) ==
    LET t == SkipLeading(line, {32}) IN Len(t) - Len(SkipLeading(t, {35}))

\* the heading text of a heading line
HeadingText(line) ==
    SkipTrailing(SkipLeading(SkipLeading(SkipLeading(line, {32}), {35}), {32}), {32})

\* a Markdown call whose window is longer than any section, so that every
\* section comes back as one chunk that starts with the section's first line
OneChunkPerSection ==
    /\ fn_args.fn = "process"
    /\ fn_args.h.kind = "markdown"
    /\ fn_args.h.chunk_bytes > Len(fn_args.bytes) + 1
    /\ fn_pc = "done"

FirstLine(chunk) == lines(chunk.text)[1]

\* C16: every chunk carries as markdown_heading the heading text of the
\* section it was cut from, and a chunk cut from what precedes the first
\* heading carries no markdown_heading.
C16_ChunkCarriesSectionHeading ==
    OneChunkPerSection =>
        \A i \in 1..Len(fn_ret) :
            LET depth == HashDepth(FirstLine(fn_ret[i]))
            IN  /\ (depth >= 1 /\ depth <= fn_args.h.heading_depth) =>
                      /\ "markdown_heading" \in DOMAIN fn_ret[i]
                      /\ fn_ret[i].markdown_heading = HeadingText(FirstLine(fn_ret[i]))
                /\ (depth = 0) => "markdown_heading" \notin DOMAIN fn_ret[i]

\* C20: only a '#' line of depth <= heading_depth closes the section and
\* starts a new one; a deeper '#' line starts no section and leaves the
\* heading as it is.
C20_OnlyQualifyingHeadingsSplit ==
    OneChunkPerSection =>
        \A i \in 2..Len(fn_ret) :
            LET depth == HashDepth(FirstLine(fn_ret[i]))
            IN  depth >= 1 /\ depth <= fn_args.h.heading_depth

-----------------------------------------------------------------------------
(***************************************************************************)
(* Claims about skipped files (Spec)                                       *)
(***************************************************************************)

\* the file the loop is at cannot be read, resolves to no handler, or its
\* handler returns no chunk
CannotBeIngested ==
    /\ pc = "files"
    /\ fi <= Len(TrackedFiles)
    /\ \/ CurrentPath \in UnreadableFiles
       \/ ResolvedHandler = None
       \/ Process(unwrap(ResolvedHandler), CurrentPath, CurrentData) = <<>>

\* C18: a file that cannot be read, resolves to no handler, or whose handler
\* returns zero chunks is skipped without error: no label or write call is
\* made for it, its manifest entry and the dedup set stay as they are, and
\* the run goes on with the next file.
C18_SkippedWithoutTrace ==
    [][ CannotBeIngested =>
          /\ calls' = calls
          /\ store' = store
          /\ manifest' = manifest
          /\ seen_hashes' = seen_hashes
          /\ outcome' = outcome
          /\ pc' = "files"
          /\ fi' = fi + 1 ]_vars

\* the loop went past c.MD, which resolves to no handler, and past d.txt,
\* which cannot be read, after it had written chunks of an earlier file; both
\* kept the manifest entries they had
C18_Witness ==
    /\ pc = "files"
    /\ fi = Len(TrackedFiles) + 1
    /\ resolve_handler(Handlers, DriverConfig, F_c_MD, fs[F_c_MD].bytes, Ctx) = None
    /\ \E k \in 1..Len(store) : store[k].run = run
    /\ manifest[F_c_MD] = Some(OldEntry)
    /\ manifest[F_d_txt] = Some(OldEntry)
    /\ CallsFor(F_c_MD) = <<>>
    /\ CallsFor(F_d_txt) = <<>>

-----------------------------------------------------------------------------
(***************************************************************************)
(* Claims about the chunk indices of MarkdownHandler::process (SpecCall)   *)
(***************************************************************************)

\* C21: the chunk_index values of the chunks MarkdownHandler::process
\* returns strictly increase in emission order across all sections.
C21_ChunkIndexIncreases ==
    (fn_args.fn = "process" /\ fn_args.h.kind = "markdown" /\ fn_pc = "done") =>
        \A i \in 1..Len(fn_ret) : \A j \in 1..Len(fn_ret) :
            (i < j) => fn_ret[i].chunk_index < fn_ret[j].chunk_index

-----------------------------------------------------------------------------
(***************************************************************************)
(* Claims about force_handlers and handlers_disabled (SpecResolve)         *)
(***************************************************************************)

\* the handler name force_handlers gives for the file's lower-cased extension
ForcedName == unwrap(rs_cfg.force_handlers)[unwrap(extension_lower(rs_path))]

\* the registered handlers of that name
ForcedRegistered ==
    { i \in 1..Len(rs_handlers) :
        to_ascii_lowercase(HandlerName(rs_handlers[i])) = to_ascii_lowercase(ForcedName) }

\* the registered handlers that accept the file, by position
Accepting ==
    { i \in 1..Len(rs_handlers) : Supports(rs_handlers[i], rs_path, rs_data, rs_ctx) }

\* what resolution by registry order returns
ByRegistryOrder ==
    IF Accepting = {} THEN None
    ELSE Some(rs_handlers[CHOOSE i \in Accepting : \A k \in Accepting : i <= k])

\* C22: when force_handlers maps the file's lower-cased extension to a
\* handler H that is registered and whose supports accepts the file,
\* resolve_handler returns H, even when an earlier handler accepts too; when
\* H is not registered or rejects the file, the result is what registry
\* order gives.
C22_ForcedHandlerFirst ==
    (rs_pc = "done" /\ ~NoForceEntry) =>
        IF ForcedRegistered \cap Accepting # {}
        THEN \E i \in ForcedRegistered \cap Accepting : rs_handler = Some(rs_handlers[i])
        ELSE rs_handler = ByRegistryOrder

\* blob.json, forced to "Text", resolved to PlainText although Data, earlier
\* in the registry, accepts it too
C22_Witness ==
    /\ rs_pc = "done"
    /\ rs_path = P_blob_json
    /\ rs_cfg.force_handlers = Some([ e \in {E_json} |-> S_Text ])
    /\ ResolvedKind = "text"
    /\ \E i \in Accepting : rs_handlers[i].kind = "data"


\* C23: with all handlers enabled, every non-binary, UTF-8-decodable file
\* that the Code, Markdown and Data handlers do not accept is accepted by
\* PlainText, for every spelling of the extension, so it resolves to a
\* handler.
C23_PlainTextTakesTheRest ==
    (/\ rs_pc = "done"
     /\ rs_cfg.handlers_disabled \in {None, Some({})}
     /\ is_valid_utf8(rs_data)
     /\ ~is_probably_binary_with_threshold(rs_data, rs_ctx.binary_threshold)
     /\ \A i \in 1..Len(rs_handlers) :
           rs_handlers[i].kind \in {"code", "markdown", "data"}
              => ~Supports(rs_handlers[i], rs_path, rs_data, rs_ctx))
    => /\ \E i \in 1..Len(rs_handlers) :
             /\ rs_handlers[i].kind = "text"
             /\ Supports(rs_handlers[i], rs_path, rs_data, rs_ctx)
       /\ rs_handler # None

-----------------------------------------------------------------------------
(***************************************************************************)
(* Claims about the run's bookkeeping (Spec)                               *)
(***************************************************************************)

\* the identifiers the store returned for the write calls of this run on the
\* file the loop is at, in call order
ReturnedIds ==
    LET mine == SelectSeq(store, LAMBDA r : r.run = run /\ r.path = CurrentPath)
    IN  [ k \in 1..Len(mine) |-> mine[k].store_id ]

\* C24: for every chunk that is written, the id appended to the file's
\* manifest chunk_ids is the identifier the store returned for that write.
C24_ManifestHoldsReturnedIds ==
    (pc \in {"chunks", "label", "write"}) => chunk_ids_for_manifest = ReturnedIds


\* the manifest loaded at the start of the run records the current content
\* hash and mtime of the file the loop is at
RecordedAsIs ==
    /\ pc = "files"
    /\ fi <= Len(TrackedFiles)
    /\ CurrentPath \notin UnreadableFiles
    /\ disk_at_start[CurrentPath] # None
    /\ unwrap(disk_at_start[CurrentPath]).hash = blake3_hash(CurrentData)
    /\ unwrap(disk_at_start[CurrentPath]).mtime = fs[CurrentPath].mtime

\* C25: when the loaded manifest records the file's current content hash and
\* mtime, the file's step changes nothing: no handler processes it, no label
\* or write call is made, its manifest entry, old chunk_ids included, is
\* kept, and the dedup set gains no hash.
C25_ManifestSkipChangesNothing ==
    [][ RecordedAsIs =>
          /\ pc' = "files"
          /\ fi' = fi + 1
          /\ prepared_chunks' = prepared_chunks
          /\ calls' = calls
          /\ store' = store
          /\ manifest' = manifest
          /\ manifest'[CurrentPath] = disk_at_start[CurrentPath]
          /\ seen_hashes' = seen_hashes ]_vars

\* the second run went past a.txt, which the first run had indexed and which
\* was not edited since: no call was made for it and its entry still lists
\* the chunk ids of the first run
C25_Witness ==
    /\ run = 2
    /\ pc = "files"
    /\ fi = 2
    /\ prev_outcome = "completed"
    /\ manifest[F_a_txt] # None
    /\ unwrap(manifest[F_a_txt]).hash = blake3_hash(fs[F_a_txt].bytes)
    /\ unwrap(manifest[F_a_txt]).mtime = fs[F_a_txt].mtime
    /\ unwrap(manifest[F_a_txt]).chunk_ids # <<>>
    /\ manifest[F_a_txt] = disk_at_start[F_a_txt]
    /\ CallsFor(F_a_txt) = <<>>
    /\ seen_hashes = {}


\* the calls of the latest run, in the order they were started
RunCalls == SelectSeq(calls, LAMBDA c : c.run = run)

\* the records the store accepted in the latest run
RunStored == SelectSeq(store, LAMBDA r : r.run = run)

\* call a is for an earlier file than call b, or for an earlier chunk of the
\* same file
Earlier(a, b) ==
    \/ FileIndex(a.path) < FileIndex(b.path)
    \/ a.path = b.path /\ a.idx < b.idx

\* C26: a run is strictly sequential: calls are started in file order and,
\* within a file, in chunk order; a chunk's write call starts right after its
\* label call has returned; at most one call is outstanding; and when a call
\* for a later chunk or file starts, the dedup set holds the hashes of the
\* earlier chunks and the manifest holds the entries of the earlier files.
C26_StrictlySequential ==
    LET n        == Len(RunCalls)
        labels   == Cardinality({ i \in 1..n : RunCalls[i].kind = "label" })
        writes   == Cardinality({ i \in 1..n : RunCalls[i].kind = "write" })
        inflight == (labels - writes) + (writes - Len(RunStored))
    IN  /\ \A i \in 1..n : \A j \in 1..n :
              (i < j) =>
                 \/ Earlier(RunCalls[i], RunCalls[j])
                 \/ /\ j = i + 1
                    /\ RunCalls[i].kind = "label"
                    /\ RunCalls[j].kind = "write"
                    /\ RunCalls[i].path = RunCalls[j].path
                    /\ RunCalls[i].idx = RunCalls[j].idx
        /\ \A i \in 1..n :
              (RunCalls[i].kind = "write") => (i > 1 /\ RunCalls[i - 1].kind = "label")
        /\ inflight \in {0, 1}
        /\ (inflight = 1) <=> (pc \in {"label", "write"} \/ (outcome = "aborted" /\ n > 0))
        /\ (pc = "label") => (labels = writes + 1)
        /\ (pc = "write") => (labels = writes /\ writes = Len(RunStored) + 1)
        /\ (outcome = "running") =>
              \A i \in 1..n :
                  /\ blake3_hash(RunCalls[i].text) \in seen_hashes
                  /\ (FileIndex(RunCalls[i].path) < FileIndex(RunCalls[n].path)) =>
                        manifest[RunCalls[i].path]
                          = Some([ hash      |-> blake3_hash(run_fs[RunCalls[i].path].bytes),
                                   mtime     |-> run_fs[RunCalls[i].path].mtime,
                                   chunk_ids |-> WrittenIds(RunCalls[i].path) ])

\* the write call for a chunk of b.txt is outstanding, after a.txt was
\* labelled, written and entered in the manifest
C26_Witness ==
    /\ pc = "write"
    /\ CurrentPath = F_b_txt
    /\ Len(RunCalls) = 4
    /\ RunCalls[1].path = F_a_txt
    /\ RunCalls[4] = [ kind |-> "write", run |-> run, path |-> F_b_txt, idx |-> idx,
                       text |-> CurrentChunk.text ]
    /\ manifest[F_a_txt] # disk_at_start[F_a_txt]

-----------------------------------------------------------------------------
(***************************************************************************)
(* Claims about the command line and the policy (SpecFilter)               *)
(***************************************************************************)

\* C27: when no policy file exists, the command line's allow-binary flag and
\* binary threshold take effect: the run's HandlerContext has allow_binary
\* as given (and the given threshold, clamped), with the flag set the Binary
\* handler is registered, and a file detected as binary passes the filter.
C27_CliBinaryFlagsTakeEffect ==
    (fn_args.fn = "run_index_repo" /\ fn_pc = "done" /\ fn_args.policy_file = None) =>
        LET r == unwrap(fn_ret)
            t == fn_args.opts.binary_threshold
        IN  /\ r.ctx.allow_binary = fn_args.opts.allow_binary
            /\ r.ctx.binary_threshold = (IF t > 100 THEN 100 ELSE t)
            /\ fn_args.opts.allow_binary =>
                  /\ \E i \in 1..Len(r.handlers) : r.handlers[i].kind = "binary"
                  /\ (fn_args.path \in {P_main_rs, P_blob_json}) => r.consider


\* the max_file_bytes that handler_overrides gives the handler the file
\* resolved to (None when there is none)
ResolvedHandlerLimit ==
    LET cfg == load_ingest_config(fn_args.policy_file)
        h   == unwrap(fn_ret).handler
    IN  IF h # None /\ cfg.handler_overrides # None
           /\ HandlerName(unwrap(h)) \in DOMAIN unwrap(cfg.handler_overrides)
        THEN unwrap(cfg.handler_overrides)[HandlerName(unwrap(h))].max_file_bytes
        ELSE None

\* C28: a file larger than the max_file_bytes override of the handler it
\* resolves to is not processed by that handler, even when it is within the
\* global max_file_bytes.
C28_HandlerLimitHolds ==
    (/\ fn_args.fn = "run_index_repo"
     /\ fn_pc = "done"
     /\ ResolvedHandlerLimit # None
     /\ Len(fn_args.data) > unwrap(ResolvedHandlerLimit))
    => ~unwrap(fn_ret).consider


\* the handler name is in handlers_disabled, compared without regard to case
Disabled(name) ==
    /\ rs_cfg.handlers_disabled # None
    /\ \E n \in unwrap(rs_cfg.handlers_disabled) :
          to_ascii_lowercase(n) = to_ascii_lowercase(name)

\* C29: a handler whose name is in handlers_disabled, compared without
\* regard to case, is never returned by resolve_handler, also when
\* force_handlers names it for the file's extension; resolution then falls
\* back to the remaining handlers in priority order.
C29_DisabledNeverResolved ==
    (rs_pc = "done") =>
        /\ \A i \in 1..Len(rs_handlers) : ~Disabled(HandlerName(rs_handlers[i]))
        /\ (rs_handler # None) => ~Disabled(HandlerName(unwrap(rs_handler)))
        /\ (~NoForceEntry /\ Disabled(ForcedName)) =>
              /\ rs_handler = ByRegistryOrder
              /\ \A i, j \in 1..Len(rs_handlers) :
                    i < j => PriorityRank(rs_handlers[i].kind)
                               < PriorityRank(rs_handlers[j].kind)

\* blob.json is forced to "text" while "Text" is disabled: it resolved to
\* Data, the first of the remaining handlers that accepts it
C29_Witness ==
    /\ rs_pc = "done"
    /\ rs_path = P_blob_json
    /\ rs_cfg.handlers_disabled = Some({S_Text})
    /\ rs_cfg.force_handlers = Some([ e \in {E_json} |-> S_text ])
    /\ ResolvedKind = "data"
    /\ Len(rs_handlers) >= 3


\* path p was re-indexed by the latest run: the file loop has passed it, it
\* is readable, the loaded manifest did not record its current content hash
\* and mtime, and its entry is the one the run made for it
Reindexed(p) ==
    /\ p \in Range(TrackedFiles)
    /\ p \notin UnreadableFiles
    /\ FileIndex(p) < fi
    /\ \/ disk_at_start[p] = None
       \/ unwrap(disk_at_start[p]).hash # blake3_hash(run_fs[p].bytes)
       \/ unwrap(disk_at_start[p]).mtime # run_fs[p].mtime
    /\ manifest[p] = Some([ hash      |-> blake3_hash(run_fs[p].bytes),
                            mtime     |-> run_fs[p].mtime,
                            chunk_ids |-> WrittenIds(p) ])

\* C30: a run never removes or alters the manifest entry of a path it did
\* not re-index: every path of the manifest loaded at run start is in the
\* manifest the run holds and saves, with the entry it had unless the run
\* re-indexed the path; entries of untracked, filtered-out or not-changed
\* files persist.
C30_UntouchedEntriesPersist ==
    (run >= 1) =>
        \A p \in ManifestPaths :
            /\ (disk_at_start[p] # None) => (manifest[p] # None /\ disk_manifest[p] # None)
            /\ (manifest[p] # disk_at_start[p]) => Reindexed(p)
            /\ (disk_manifest[p] # disk_at_start[p]) =>
                  (outcome = "completed" /\ Reindexed(p) /\ disk_manifest[p] = manifest[p])

\* a run restricted to the files changed since a ref completed: it gave
\* a.txt a new entry and saved the entries of c.MD, d.txt and the untracked
\* gone.txt as they were loaded
C30_Witness ==
    /\ run = 1
    /\ outcome = "completed"
    /\ opts.changed_only = Some({F_a_txt})
    /\ disk_manifest[F_a_txt] # disk_at_start[F_a_txt]
    /\ disk_manifest[F_c_MD] = Some(OldEntry)
    /\ disk_manifest[F_d_txt] = Some(OldEntry)
    /\ disk_manifest[F_gone_txt] = Some(OldEntry)
    /\ disk_at_start[F_gone_txt] = Some(OldEntry)

=============================================================================
